---------------------------- MODULE Spec2Model ----------------------------
(***************************************************************************)
(* Model of the Tuwunel importer (src/importer/importer.py): the import    *)
(* command `main`, the Plan Builder `build_plan` and the Reconciler        *)
(* `perform_import`, run against a target homeserver whose answers are     *)
(* nondeterministic (any call may succeed or raise); and of the Synapse    *)
(* exporter (src/exporter/exporter.py): export_all with the paginated      *)
(* listings of SynapseAdmin, run against a source server whose answers are *)
(* nondeterministic as well.                                               *)
(*                                                                         *)
(* Strings that the code inspects (room ids, aliases, error texts) are     *)
(* sequences of tokens, so that startswith / endswith / `in` are computed  *)
(* and not looked up.  Python dicts are functions; a dict that the code    *)
(* iterates is iterated in the order of its file, which the exporter       *)
(* writes with sorted keys (exporter.py:185).                              *)
(***************************************************************************)
EXTENDS Naturals, Integers, Sequences, FiniteSets, TLC

VARIABLES
    pc,                 \* position of the program
    args,               \* parsed command line of main (the three switches)
    bundle,             \* the Bundle (rooms, room_state, memberships, aliases)
    plan,               \* the ImportPlan (join_rooms, create_rooms, create_aliases)
    dry_run,            \* parameter dry_run of perform_import
    create_local_rooms, \* parameter create_local_rooms of perform_import
    tgt,                \* state of the target server (joined, aliases, rooms)
    already_joined,     \* perform_import: set(client.joined_rooms())
    results,            \* perform_import: the results dict
    idx,                \* index of the item of the running loop
    attempt,            \* loop variable `attempt` of the retry loops
    ok,                 \* local `ok` of the join loop
    candidate_aliases,  \* local `candidate_aliases` of the fallback
    cidx,               \* index in candidate_aliases
                        \* (locals are cleared where the code rebinds them
                        \* or can no longer read them)
    cur,                \* the plan item the calls of itemlog were made for
    itemlog,            \* target calls and sleeps made for the item cur, in order
    net,                \* names of the target operations called so far
    exc,                \* str(e) of the last exception caught for the item cur
    applied,            \* target states left by the completed runs of perform_import
    archive,            \* what --bundle names: a directory or a tar archive
    disk,               \* the files on disk, as absolute paths
    root,               \* load_bundle: the effective bundle root
    devices,            \* load_bundle: Bundle.devices
    listing,            \* exporter: the room listing of the source server
    cfg,                \* exporter: the ExporterConfig
    from_tok,           \* list_users / list_rooms: local `from_tok`
    data,               \* list_users / list_rooms: the page fetched last, as
                        \* the token it was asked with and the one it carries
    fetches,            \* pages fetched by the running listing
    users,              \* export_all: local `users`
    rooms_basic,        \* export_all: local `rooms_basic`
    room_state,         \* export_all: local `room_state`
    memberships,        \* export_all: local `memberships`
    aliases,            \* export_all: local `aliases`
    sent,               \* room_state / room_members calls made, in order,
                        \* with their answers
    out                 \* files written to the output directory, in order

\* state of load_bundle
loaderVars == <<archive, disk, root, devices>>

\* state of the exporter
exporterVars == <<listing, cfg, from_tok, data, fetches, users,
                  rooms_basic, room_state, memberships, aliases, sent, out>>

vars == <<pc, args, bundle, plan, dry_run, create_local_rooms, tgt,
          already_joined, results, idx, attempt, ok, candidate_aliases,
          cidx, cur, itemlog, net, exc, applied, loaderVars, exporterVars>>

-----------------------------------------------------------------------------
(* Bounds of the model *)

\* Largest number of facts (room records, alias entries, state events,
\* membership entries) of a bundle.
MaxFacts == 3

\* Largest number of room records of a bundle.
MaxRooms == 2

\* Largest number of documents (of the seven) a bundle on disk or in an
\* archive lacks, unless it lacks them all.
MaxMissing == 1

\* Largest number of members of an archive besides the documents.
MaxExtras == 1

\* Largest number of room records given to the exporter and to build_plan
\* where they are run on their own.
MaxPlanRooms == 2

\* Largest number of pages a listing of the exporter fetches.
MaxPages == 2

\* Largest number of members of a room of the bundle.
MaxMembers == 52

-----------------------------------------------------------------------------
(* Values *)

\* Python None / JSON null where a string or a list is expected
None == <<>>

server_name == <<"x">>

R_a == <<"!", "a", ":", "x">>
R_b == <<"!", "b", ":", "x">>
RoomIds == {R_a, R_b}

A_s == <<"#", "s", ":", "x">>
A_t == <<"#", "t", ":", "x">>
A_u == <<"#", "u", ":", "y">>
Aliases == {A_s, A_t, A_u}
\* aliases.json is written with sorted keys: the order dict iteration follows
AliasOrder == <<A_s, A_t, A_u>>

U_l == <<"@", "l", ":", "x">>
U_r == <<"@", "r", ":", "y">>
UserIds == {U_l, U_r}

\* str(e) of the RuntimeError raised by MatrixClient._request
E_502 == <<"HTTP", "502", "bad", "gateway">>
E_403 == <<"HTTP", "403", "M_FORBIDDEN">>
E_code == <<"HTTP", "409", "M_ROOM_IN_USE">>
E_exists == <<"HTTP", "409", "M_UNKNOWN", "alias", "already", "exists">>
E_inuse == <<"HTTP", "409", "M_UNKNOWN", "alias", "already", "in", "use">>
TransportErrors == {E_502, E_403}
PutAliasErrors == {E_502, E_code, E_exists, E_inuse}

-----------------------------------------------------------------------------
(* Python helpers *)

\* s.startswith(p)
StartsWith(s, p) == Len(s) >= Len(p) /\ SubSeq(s, 1, Len(p)) = p

\* s.endswith(p)
EndsWith(s, p) ==
    Len(s) >= Len(p) /\ SubSeq(s, Len(s) - Len(p) + 1, Len(s)) = p

\* p in s
Contains(s, p) ==
    \E i \in 1..(Len(s) + 1) :
        i + Len(p) - 1 <= Len(s) /\ SubSeq(s, i, i + Len(p) - 1) = p

\* d.get(k, default)
Get(d, k, default) == IF k \in DOMAIN d THEN d[k] ELSE default

\* d[k] = v
Put(d, k, v) == [x \in (DOMAIN d) \cup {k} |-> IF x = k THEN v ELSE d[x]]

\* d.pop(k, None)
Pop(d, k) == [x \in (DOMAIN d) \ {k} |-> d[x]]

EmptyDict == <<>>

\* the keys of dict d in iteration order, order being the order of the file
Keys(d, order) == SelectSeq(order, LAMBDA k : k \in DOMAIN d)

Range(s) == {s[i] : i \in 1..Len(s)}

Min(a, b) == IF a <= b THEN a ELSE b

RECURSIVE Pow(_, _)
Pow(b, n) == IF n = 0 THEN 1 ELSE b * Pow(b, n - 1)

\* the characters of the strings that are sorted, in code point order
Chars ==
    <<"0", "1", "2", "3", "4", "5", "6", "7", "8", "9", ":", "@", "_",
      "a", "b", "c", "d", "e", "f", "g", "h", "i", "j", "k", "l", "m",
      "n", "o", "p", "q", "r", "s", "t", "u", "v", "w", "x", "y", "z">>

\* the rank of the character ch in code point order
Ord(ch) == CHOOSE i \in 1..Len(Chars) : Chars[i] = ch

\* s < t for two strings
StrLess(s, t) ==
    \/ Len(s) < Len(t) /\ SubSeq(t, 1, Len(s)) = s
    \/ \E i \in 1..Min(Len(s), Len(t)) :
          /\ SubSeq(s, 1, i - 1) = SubSeq(t, 1, i - 1)
          /\ Ord(s[i]) < Ord(t[i])

\* sorted(S) for a set S of strings: the string with i - 1 smaller ones
\* is at place i
Sorted(S) ==
    LET smaller == [x \in S |-> Cardinality({y \in S : StrLess(y, x)})]
    IN  [i \in 1..Cardinality(S) |-> CHOOSE x \in S : smaller[x] = i - 1]

\* the rational num/den as <<num, den>>; a/b <= c/d
RatLeq(p, q) == p[1] * q[2] <= q[1] * p[2]

-----------------------------------------------------------------------------
(* The bundle *)

V10 == <<"10">>

\* JSON true / false of the federatable flag; JSON null is FlagNull
FlagNull == "null"
FedValues == {"True", "False"}

RoomRecords == [room_id : RoomIds, federatable : FedValues, version : {V10}]

RoomLists == UNION {[1..k -> RoomRecords] : k \in 0..Min(MaxRooms, MaxFacts)}

\* the room ids of a list of room records
IdsOf(rooms) == {rooms[i].room_id : i \in 1..Len(rooms)}

\* alias maps with at most n entries whose values are among ids
AliasMaps(ids, n) ==
    UNION {[S -> ids] : S \in {T \in SUBSET Aliases : Cardinality(T) <= n}}

CanonicalAlias(a) == [type |-> "m.room.canonical_alias", content |-> [alias |-> a]]
RoomName(n) == [type |-> "m.room.name", content |-> [name |-> n]]
StateEvents == {CanonicalAlias(A_t), CanonicalAlias(A_u), RoomName(<<"N">>)}

EventLists(n) == UNION {[1..k -> StateEvents] : k \in 0..n}

RECURSIVE SumLen(_, _)
SumLen(f, S) ==
    IF S = {} THEN 0
    ELSE LET k == CHOOSE x \in S : TRUE IN Len(f[k]) + SumLen(f, S \ {k})

\* room_state documents over ids with at most n events in all
RoomStates(ids, n) ==
    {st \in [ids -> EventLists(n)] : SumLen(st, ids) <= n}

\* the membership table the exporter writes for a room: uid -> membership
Members == (U_l :> "join") @@ (U_r :> "join")

-----------------------------------------------------------------------------
(* Plan Builder *)

\* truth value of a JSON flag
Truthy(v) == v = "True"

RoomIdOf(r) == Get(r, "room_id", None)

\* the room ids of a list of room records, in list order
RoomIdsOf(rs) == [i \in 1..Len(rs) |-> RoomIdOf(rs[i])]

\* JoinCandidate that reads a missing flag as false: r.get("federatable")
JoinCandidate_NoDefault(r) ==
    RoomIdOf(r) # None /\ Truthy(Get(r, "federatable", "False"))

\* rid is there and r.get("federatable", True) is truthy
JoinCandidate(r) ==
    RoomIdOf(r) # None /\ Truthy(Get(r, "federatable", "True"))

CreateCandidate(r, do_create_local_rooms) ==
    /\ RoomIdOf(r) # None
    /\ ~Truthy(Get(r, "federatable", "True"))
    /\ do_create_local_rooms

\* build_plan whose lists are module-level and keep what earlier calls put
build_plan_Accumulating(b, sn, do_create_local_rooms, do_create_aliases) ==
    [join_rooms |->
        plan.join_rooms \o RoomIdsOf(SelectSeq(b.rooms, JoinCandidate)),
     create_rooms |-> plan.create_rooms,
     create_aliases |-> plan.create_aliases]

build_plan(b, sn, do_create_local_rooms, do_create_aliases) ==
    [join_rooms |-> RoomIdsOf(SelectSeq(b.rooms, JoinCandidate)),
     create_rooms |->
        RoomIdsOf(SelectSeq(b.rooms,
                            LAMBDA r : CreateCandidate(r, do_create_local_rooms))),
     create_aliases |->
        IF do_create_aliases
        THEN [a \in {k \in DOMAIN b.aliases : EndsWith(k, <<":">> \o sn)}
                |-> b.aliases[a]]
        ELSE EmptyDict]

EmptyPlan == [join_rooms |-> <<>>, create_rooms |-> <<>>, create_aliases |-> EmptyDict]

-----------------------------------------------------------------------------
(* Reconciler: pure parts *)

\* a retry loop that runs once more
Attempts_OneMore == 5 + 1

\* number of tries of a retry loop: range(0, 5)
Attempts == 5
\* a failure recorded one try early
LastAttempt_Early == 4 - 1

\* a failure that is never recorded: the test `attempt < 5`
LastAttempt_Late == 4 + 1

\* the last value of `attempt`, after which the failure is recorded
LastAttempt == 4
\* cap of the backoff, in seconds
BackoffCap == 30
\* cap of the invite list
InviteCap == 50

\* backoff_sleep(attempt): min(30, 1.5 ** attempt) seconds, as <<num, den>>
backoff_sleep(a) ==
    LET d == <<Pow(3, a), Pow(2, a)>>
    IN  IF RatLeq(<<BackoffCap, 1>>, d) THEN <<BackoffCap, 1>> ELSE d

EmptyResults ==
    [joined |-> <<>>, join_failed |-> EmptyDict,
     aliases_created |-> <<>>, aliases_failed |-> EmptyDict,
     rooms_created |-> <<>>, rooms_failed |-> EmptyDict]

IsCanonicalWithAlias(ev) ==
    /\ ev.type = "m.room.canonical_alias"
    /\ Get(ev.content, "alias", None) # None

AliasOfEvent(ev) == ev.content.alias

\* the aliases of the canonical-alias events of a state list, in list order
CanonicalAliasesOf(st) ==
    LET evs == SelectSeq(st, IsCanonicalWithAlias)
    IN  [i \in 1..Len(evs) |-> AliasOfEvent(evs[i])]

\* candidate_aliases of the fallback: canonical aliases of the state
\* snapshot, then every alias of the bundle that points at rid
CandidateAliases(b, rid) ==
    CanonicalAliasesOf(Get(b.room_state, rid, <<>>))
    \o SelectSeq(Keys(b.aliases, AliasOrder), LAMBDA a : b.aliases[a] = rid)

\* IsConflict that knows the error code only
IsConflict_CodeOnly(msg) == Contains(msg, <<"M_ROOM_IN_USE">>)

\* "M_ROOM_IN_USE" in msg or "already exists" in msg
IsConflict(msg) ==
    Contains(msg, <<"M_ROOM_IN_USE">>) \/ Contains(msg, <<"already", "exists">>)

\* the value the loop over the state snapshot leaves in `name` / `topic`
RECURSIVE LoopValue(_, _, _, _)
LoopValue(st, type, key, acc) ==
    IF st = <<>> THEN acc
    ELSE LoopValue(Tail(st), type, key,
                   IF Head(st).type = type
                   THEN Get(Head(st).content, key, None)
                   ELSE acc)

InitialStateTypes ==
    {"m.room.power_levels", "m.room.join_rules",
     "m.room.history_visibility", "m.room.encryption"}

InitialState(st) ==
    LET evs == SelectSeq(st, LAMBDA ev : ev.type \in InitialStateTypes)
    IN  [i \in 1..Len(evs) |->
            [type |-> evs[i].type, state_key |-> <<>>, content |-> evs[i].content]]

Preset(st) ==
    IF \E i \in 1..Len(st) :
          /\ st[i].type = "m.room.join_rules"
          /\ Get(st[i].content, "join_rule", None) = <<"public">>
    THEN "public_chat" ELSE "private_chat"

\* the invite list without the cut: sorted(set(invites))
Invites_Uncapped(b, rid, sn) ==
    LET m == Get(b.memberships, rid, EmptyDict)
    IN  Sorted({u \in DOMAIN m : /\ EndsWith(u, <<":">> \o sn)
                                 /\ m[u] \in {"join", "invite"}})

\* sorted(set(invites))[:50]
Invites(b, rid, sn) ==
    LET m == Get(b.memberships, rid, EmptyDict)
        s == Sorted({u \in DOMAIN m : /\ EndsWith(u, <<":">> \o sn)
                                      /\ m[u] \in {"join", "invite"}})
    IN  SubSeq(s, 1, Min(InviteCap, Len(s)))

VersionMap(b) ==
    [rid \in {RoomIdOf(b.rooms[i]) : i \in 1..Len(b.rooms)} \ {None} |->
        LET i == CHOOSE j \in 1..Len(b.rooms) :
                    /\ RoomIdOf(b.rooms[j]) = rid
                    /\ \A k \in (j + 1)..Len(b.rooms) : RoomIdOf(b.rooms[k]) # rid
        IN  Get(b.rooms[i], "version", None)]

\* the arguments of client.create_room for rid
CreateRoomRequest(b, rid, sn) ==
    LET st == Get(b.room_state, rid, <<>>)
    IN  [preset |-> Preset(st),
         invite |-> Invites(b, rid, sn),
         name |-> LoopValue(st, "m.room.name", "name", None),
         topic |-> LoopValue(st, "m.room.topic", "topic", None),
         room_version |-> Get(VersionMap(b), rid, None),
         initial_state |-> InitialState(st)]

\* the id the target gives to the k-th room it creates
FreshRoomId(k) == <<"!">> \o [i \in 1..k |-> "n"] \o <<":", "x">>

-----------------------------------------------------------------------------
(* Initial states: the import command about to start (main), or            *)
(* perform_import about to be called with a plan built from the bundle.    *)
(* The target is joined to some of the rooms the plan will ask to join.    *)

Switches == [dry_run : BOOLEAN, create_local_rooms : BOOLEAN, create_aliases : BOOLEAN]

InitLocals ==
    /\ already_joined = {}
    /\ results = EmptyResults
    /\ idx = 1
    /\ attempt = 0
    /\ ok = FALSE
    /\ candidate_aliases = <<>>
    /\ cidx = 1
    /\ cur = [kind |-> "none", i |-> 0, key |-> None]
    /\ itemlog = <<>>
    /\ net = {}
    /\ exc = None
    /\ applied = <<>>

InitBundle ==
    \E rooms \in RoomLists :
    \E am \in AliasMaps(IdsOf(rooms), MaxFacts - Len(rooms)) :
    \E st \in RoomStates(IdsOf(rooms),
                         MaxFacts - Len(rooms) - Cardinality(DOMAIN am)) :
    \E tj \in SUBSET IdsOf(SelectSeq(rooms, JoinCandidate)) :
    \E c \in BOOLEAN :
        /\ bundle = [rooms |-> rooms, room_state |-> st, aliases |-> am,
                     memberships |-> [rid \in IdsOf(rooms) |-> Members]]
        /\ tgt = [joined |-> tj, aliases |-> EmptyDict, rooms |-> {},
                  cooperative |-> c]

InitMain ==
    /\ pc = "main_whoami"
    /\ args \in Switches
    /\ plan = EmptyPlan
    /\ dry_run = FALSE
    /\ create_local_rooms = FALSE

\* perform_import called in dry-run mode, which main never does (main exits
\* after printing the plan), with the plan and the switch main would pass
InitCall ==
    /\ pc = "perform_import"
    /\ args \in {a \in Switches : ~a.dry_run}
    /\ plan = build_plan(bundle, server_name, args.create_local_rooms,
                         args.create_aliases)
    /\ dry_run = TRUE
    /\ create_local_rooms = args.create_local_rooms

\* the bundle is a directory that load_bundle either reads or rejects
NoArchive == [kind |-> "dir", members |-> <<>>]

InitLoader ==
    /\ archive = NoArchive
    /\ disk = {}
    /\ root = None
    /\ devices = None

\* the locals of export_all before it runs
InitExportLocals ==
    /\ from_tok = None
    /\ data = [from |-> None, next_token |-> None]
    /\ fetches = 0
    /\ users = <<>>
    /\ rooms_basic = <<>>
    /\ room_state = EmptyDict
    /\ memberships = EmptyDict
    /\ aliases = EmptyDict
    /\ sent = <<>>
    /\ out = <<>>

NoConfig ==
    [server_name |-> None, include_devices |-> TRUE,
     include_media_refs |-> FALSE]

InitExporter ==
    /\ listing = <<>>
    /\ cfg = NoConfig
    /\ InitExportLocals

Init ==
    /\ InitBundle /\ InitLocals /\ InitLoader /\ InitExporter
    /\ (InitMain \/ InitCall)

-----------------------------------------------------------------------------
(* The target server.  A cooperative target answers every call as its      *)
(* state dictates: it is reachable, accepts joins and room creations, and  *)
(* answers a PUT of an alias it already holds with 409 M_ROOM_IN_USE.  Any *)
(* other target may fail any call with any error.                          *)

\* the errors _request may raise for a GET or a POST
RequestErrors == IF tgt.cooperative THEN {} ELSE TransportErrors

\* whether PUT /directory/room/{alias} may answer 200
PutAliasAccepted(alias) == ~tgt.cooperative \/ alias \notin DOMAIN tgt.aliases

\* the errors _request may raise for PUT /directory/room/{alias}
PutAliasRefusals(alias) ==
    IF ~tgt.cooperative THEN PutAliasErrors
    ELSE IF alias \in DOMAIN tgt.aliases THEN {E_code} ELSE {}

-----------------------------------------------------------------------------
(* main *)

\* me = client.whoami(); on failure sys.exit(2)
MainWhoami ==
    /\ pc = "main_whoami"
    /\ net' = net \cup {"whoami"}
    /\ \/ /\ pc' = "main_load"
          /\ exc' = exc
       \/ \E e \in RequestErrors :
          /\ exc' = e
          /\ pc' = "exit_2"
    /\ UNCHANGED <<args, bundle, plan, dry_run, create_local_rooms, tgt,
                   already_joined, results, idx, attempt, ok,
                   candidate_aliases, cidx, cur, itemlog>>
    /\ UNCHANGED <<applied, loaderVars, exporterVars>>

\* bundle = load_bundle(...): returns the bundle or raises
MainLoad ==
    /\ pc = "main_load"
    /\ \/ pc' = "main_plan"
       \/ pc' = "load_failed"
    /\ UNCHANGED <<args, bundle, plan, dry_run, create_local_rooms, tgt,
                   already_joined, results, idx, attempt, ok,
                   candidate_aliases, cidx, cur, itemlog, net, exc>>
    /\ UNCHANGED <<applied, loaderVars, exporterVars>>

\* plan = build_plan(...); print the plan; exit if --dry-run, else call
\* perform_import(..., dry_run=False)
MainPlan ==
    /\ pc = "main_plan"
    /\ plan' = build_plan(bundle, server_name, args.create_local_rooms,
                          args.create_aliases)
    /\ IF args.dry_run
       THEN /\ pc' = "exit_0"
            /\ UNCHANGED <<dry_run, create_local_rooms>>
       ELSE /\ pc' = "perform_import"
            /\ dry_run' = FALSE
            /\ create_local_rooms' = args.create_local_rooms
    /\ UNCHANGED <<args, bundle, tgt, already_joined, results, idx, attempt,
                   ok, candidate_aliases, cidx, cur, itemlog, net, exc>>
    /\ UNCHANGED <<applied, loaderVars, exporterVars>>

-----------------------------------------------------------------------------
(* perform_import *)

Call(op, arg, succeeded) == [op |-> op, arg |-> arg, ok |-> succeeded]
Sleep(a) == [op |-> "sleep", arg |-> backoff_sleep(a), ok |-> TRUE]

\* results = {...}; already_joined = set(client.joined_rooms())
PerformImport ==
    /\ pc = "perform_import"
    /\ results' = EmptyResults
    /\ net' = net \cup {"joinedRooms"}
    /\ \/ /\ already_joined' = tgt.joined
          /\ idx' = 1
          /\ pc' = "join_loop"
          /\ exc' = exc
       \/ \E e \in RequestErrors :
          /\ exc' = e
          /\ pc' = "raised"
          /\ UNCHANGED <<already_joined, idx>>
    /\ cur' = [kind |-> "none", i |-> 0, key |-> None]
    /\ itemlog' = <<>>
    /\ UNCHANGED <<args, bundle, plan, dry_run, create_local_rooms, tgt,
                   attempt, ok, candidate_aliases, cidx>>
    /\ UNCHANGED <<applied, loaderVars, exporterVars>>

\* SkipJoin without the look at the snapshot of joined rooms
SkipJoin_NoSnapshot(rid) == dry_run

\* SkipJoin that records every room as joined
SkipJoin_Always(rid) == TRUE

\* a room recorded as joined without a call: already joined, or dry run
SkipJoin(rid) == rid \in already_joined \/ dry_run

\* for rid in plan.join_rooms: the head of the loop, up to the retry loop
JoinLoop ==
    /\ pc = "join_loop"
    /\ IF idx > Len(plan.join_rooms)
       THEN /\ pc' = "alias_loop"
            /\ idx' = 1
            /\ UNCHANGED <<results, cur, itemlog, exc>>
       ELSE LET rid == plan.join_rooms[idx] IN
            /\ cur' = [kind |-> "join", i |-> idx, key |-> rid]
            /\ itemlog' = <<>>
            /\ exc' = None
            /\ IF SkipJoin(rid)
               THEN /\ results' = [results EXCEPT !.joined = Append(@, rid)]
                    /\ idx' = idx + 1
                    /\ pc' = "join_loop"
               ELSE /\ pc' = "join_try"
                    /\ UNCHANGED <<results, idx>>
    /\ ok' = FALSE
    /\ attempt' = 0
    /\ candidate_aliases' = <<>>
    /\ cidx' = 1
    /\ UNCHANGED <<args, bundle, plan, dry_run, create_local_rooms, tgt,
                   already_joined, net>>
    /\ UNCHANGED <<applied, loaderVars, exporterVars>>

\* one pass of `for attempt in range(0, 5)`: client.join_room(rid, via=via)
JoinTry ==
    /\ pc = "join_try"
    /\ net' = net \cup {"joinRoom"}
    /\ LET rid == plan.join_rooms[idx] IN
       \/ /\ tgt' = [tgt EXCEPT !.joined = @ \cup {rid}]
          /\ results' = [results EXCEPT !.joined = Append(@, rid)]
          /\ ok' = TRUE
          /\ itemlog' = Append(itemlog, Call("joinRoom", rid, TRUE))
          /\ idx' = idx + 1
          /\ pc' = "join_loop"
          /\ UNCHANGED <<attempt, candidate_aliases, cidx, exc>>
       \/ \E e \in RequestErrors :
          /\ exc' = e
          /\ tgt' = tgt
          /\ ok' = ok
          /\ IF attempt < LastAttempt
             THEN /\ itemlog' = itemlog \o <<Call("joinRoom", rid, FALSE),
                                             Sleep(attempt)>>
                  /\ results' = results
             ELSE /\ itemlog' = Append(itemlog, Call("joinRoom", rid, FALSE))
                  /\ results' = [results EXCEPT
                                    !.join_failed = Put(@, rid, e)]
          /\ IF attempt + 1 < Attempts
             THEN /\ attempt' = attempt + 1
                  /\ pc' = "join_try"
                  /\ UNCHANGED <<idx, candidate_aliases, cidx>>
             ELSE \* if not ok: build candidate_aliases
                  /\ attempt' = attempt
                  /\ candidate_aliases' = CandidateAliases(bundle, rid)
                  /\ cidx' = 1
                  /\ IF CandidateAliases(bundle, rid) = <<>>
                     THEN idx' = idx + 1 /\ pc' = "join_loop"
                     ELSE idx' = idx /\ pc' = "join_fallback"
    /\ UNCHANGED <<args, bundle, plan, dry_run, create_local_rooms,
                   already_joined, cur>>
    /\ UNCHANGED <<applied, loaderVars, exporterVars>>

\* FallbackJoined that leaves the failure recorded at exhaustion in place
FallbackJoined_NoPop(res, rid) == [res EXCEPT !.joined = Append(@, rid)]

\* results["joined"].append(rid); results["join_failed"].pop(rid, None)
FallbackJoined(res, rid) ==
    [res EXCEPT !.joined = Append(@, rid), !.join_failed = Pop(@, rid)]

\* one pass of `for a in candidate_aliases`: client.join_room(a, via=via)
JoinFallback ==
    /\ pc = "join_fallback"
    /\ net' = net \cup {"joinRoom"}
    /\ LET rid == plan.join_rooms[idx]
           a == candidate_aliases[cidx] IN
       \/ /\ tgt' = [tgt EXCEPT !.joined = @ \cup {rid}]
          /\ results' = FallbackJoined(results, rid)
          /\ ok' = TRUE
          /\ itemlog' = Append(itemlog, Call("joinRoom", a, TRUE))
          /\ idx' = idx + 1
          /\ pc' = "join_loop"
          /\ UNCHANGED <<cidx, exc>>
       \/ \E e \in RequestErrors :
          /\ exc' = e
          /\ tgt' = tgt
          /\ ok' = ok
          /\ results' = [results EXCEPT !.join_failed = Put(@, rid, e)]
          /\ itemlog' = Append(itemlog, Call("joinRoom", a, FALSE))
          /\ cidx' = cidx + 1
          /\ IF cidx + 1 > Len(candidate_aliases)
             THEN idx' = idx + 1 /\ pc' = "join_loop"
             ELSE idx' = idx /\ pc' = "join_fallback"
    /\ UNCHANGED <<args, bundle, plan, dry_run, create_local_rooms,
                   already_joined, attempt, candidate_aliases, cur>>
    /\ UNCHANGED <<applied, loaderVars, exporterVars>>

\* plan.create_aliases.items(), in iteration order
AliasItems == Keys(plan.create_aliases, AliasOrder)

\* for alias, rid in plan.create_aliases.items(): the head of the loop
AliasLoop ==
    /\ pc = "alias_loop"
    /\ IF idx > Len(AliasItems)
       THEN /\ pc' = "create_loop"
            /\ idx' = 1
            /\ UNCHANGED <<results, cur, itemlog, exc>>
       ELSE LET alias == AliasItems[idx] IN
            /\ cur' = [kind |-> "alias", i |-> idx, key |-> alias]
            /\ itemlog' = <<>>
            /\ exc' = None
            /\ IF dry_run
               THEN /\ results' = [results EXCEPT
                                      !.aliases_created = Append(@, alias)]
                    /\ idx' = idx + 1
                    /\ pc' = "alias_loop"
               ELSE /\ pc' = "alias_try"
                    /\ UNCHANGED <<results, idx>>
    /\ attempt' = 0
    /\ UNCHANGED <<args, bundle, plan, dry_run, create_local_rooms, tgt,
                   already_joined, ok, candidate_aliases, cidx, net>>
    /\ UNCHANGED <<applied, loaderVars, exporterVars>>

\* one pass of `for attempt in range(0, 5)`: client.put_room_alias(alias, rid)
\* AliasTarget that follows a room to the id it was recreated under
AliasTarget_Created(alias) ==
    IF tgt.rooms # {} THEN FreshRoomId(1) ELSE plan.create_aliases[alias]

\* the rid of `for alias, rid in plan.create_aliases.items()`
AliasTarget(alias) == plan.create_aliases[alias]

AliasTry ==
    /\ pc = "alias_try"
    /\ net' = net \cup {"putAlias"}
    /\ LET alias == AliasItems[idx]
           rid == AliasTarget(alias) IN
       \/ /\ PutAliasAccepted(alias)
          /\ tgt' = [tgt EXCEPT !.aliases = Put(@, alias, rid)]
          /\ results' = [results EXCEPT !.aliases_created = Append(@, alias)]
          /\ itemlog' = Append(itemlog, Call("putAlias", <<alias, rid>>, TRUE))
          /\ idx' = idx + 1
          /\ pc' = "alias_loop"
          /\ UNCHANGED <<attempt, exc>>
       \/ \E msg \in PutAliasRefusals(alias) :
          /\ exc' = msg
          /\ tgt' = tgt
          /\ IF IsConflict(msg)
             THEN /\ results' = [results EXCEPT
                                    !.aliases_created = Append(@, alias)]
                  /\ itemlog' = Append(itemlog,
                                       Call("putAlias", <<alias, rid>>, FALSE))
                  /\ idx' = idx + 1
                  /\ pc' = "alias_loop"
                  /\ UNCHANGED attempt
             ELSE /\ IF attempt < LastAttempt
                     THEN /\ itemlog' = itemlog \o
                                <<Call("putAlias", <<alias, rid>>, FALSE),
                                  Sleep(attempt)>>
                          /\ results' = results
                     ELSE /\ itemlog' = Append(itemlog,
                                Call("putAlias", <<alias, rid>>, FALSE))
                          /\ results' = [results EXCEPT
                                            !.aliases_failed = Put(@, alias, msg)]
                  /\ IF attempt + 1 < Attempts
                     THEN /\ attempt' = attempt + 1
                          /\ pc' = "alias_try"
                          /\ idx' = idx
                     ELSE /\ attempt' = attempt
                          /\ idx' = idx + 1
                          /\ pc' = "alias_loop"
    /\ UNCHANGED <<args, bundle, plan, dry_run, create_local_rooms,
                   already_joined, ok, candidate_aliases, cidx, cur>>
    /\ UNCHANGED <<applied, loaderVars, exporterVars>>

\* if create_local_rooms: for rid in plan.create_rooms: the head of the loop
CreateLoop ==
    /\ pc = "create_loop"
    /\ IF ~create_local_rooms \/ idx > Len(plan.create_rooms)
       THEN /\ pc' = "returned"
            /\ UNCHANGED <<results, idx, cur, itemlog, exc>>
       ELSE LET rid == plan.create_rooms[idx] IN
            /\ cur' = [kind |-> "create", i |-> idx, key |-> rid]
            /\ itemlog' = <<>>
            /\ exc' = None
            /\ IF dry_run
               THEN /\ results' = [results EXCEPT
                                      !.rooms_created = Append(@, rid)]
                    /\ idx' = idx + 1
                    /\ pc' = "create_loop"
               ELSE /\ pc' = "create_try"
                    /\ UNCHANGED <<results, idx>>
    /\ UNCHANGED <<args, bundle, plan, dry_run, create_local_rooms, tgt,
                   already_joined, attempt, ok, candidate_aliases, cidx, net>>
    /\ UNCHANGED <<applied, loaderVars, exporterVars>>

\* CreatedRoomId that records the id of the bundle
CreatedRoomId_Original(created, rid) == rid

\* created.get("room_id", rid)
CreatedRoomId(created, rid) == Get(created, "room_id", rid)

\* created = client.create_room(...), inside try / except
CreateTry ==
    /\ pc = "create_try"
    /\ net' = net \cup {"createRoom"}
    /\ LET rid == plan.create_rooms[idx]
           req == CreateRoomRequest(bundle, rid, server_name)
           new == FreshRoomId(Cardinality(tgt.rooms) + 1) IN
       \/ \E created \in {[room_id |-> new], EmptyDict} :
          /\ tgt' = [tgt EXCEPT !.rooms = @ \cup {new}]
          /\ results' = [results EXCEPT
                !.rooms_created = Append(@, CreatedRoomId(created, rid))]
          /\ itemlog' = Append(itemlog,
                [op |-> "createRoom", arg |-> req, ok |-> TRUE,
                 created |-> created])
          /\ exc' = exc
       \/ \E e \in RequestErrors :
          /\ exc' = e
          /\ tgt' = tgt
          /\ results' = [results EXCEPT !.rooms_failed = Put(@, rid, e)]
          /\ itemlog' = Append(itemlog, Call("createRoom", req, FALSE))
    /\ idx' = idx + 1
    /\ pc' = "create_loop"
    /\ UNCHANGED <<args, bundle, plan, dry_run, create_local_rooms,
                   already_joined, attempt, ok, candidate_aliases, cidx, cur>>
    /\ UNCHANGED <<applied, loaderVars, exporterVars>>

\* the operator applies the same plan once more: perform_import is called
\* again with the arguments of the run that has returned, against the target
\* as that run left it
Rerun ==
    /\ pc = "returned"
    /\ tgt.cooperative
    /\ ~dry_run
    /\ applied = <<>>
    /\ applied' = Append(applied, tgt)
    /\ pc' = "perform_import"
    /\ UNCHANGED <<args, bundle, plan, dry_run, create_local_rooms, tgt,
                   already_joined, results, idx, attempt, ok,
                   candidate_aliases, cidx, cur, itemlog, net, exc>>
    /\ UNCHANGED <<loaderVars, exporterVars>>

-----------------------------------------------------------------------------

Next ==
    \/ MainWhoami
    \/ MainLoad
    \/ MainPlan
    \/ PerformImport
    \/ JoinLoop
    \/ JoinTry
    \/ JoinFallback
    \/ AliasLoop
    \/ AliasTry
    \/ CreateLoop
    \/ CreateTry
    \/ Rerun

Spec == Init /\ [][Next]_vars

-----------------------------------------------------------------------------
(* The Plan Builder on its own: build_plan applied to a bundle whose room   *)
(* records may lack a room id or a federatable flag, or hold JSON null for *)
(* them; and to the rooms.json the exporter writes from a source listing.  *)

\* a dict with the key k, or without it
Optional(k, values) == {EmptyDict} \cup {(k :> v) : v \in values}

\* room records of a rooms.json, written by any tool
PlanRoomRecords ==
    {id @@ fed : id \in Optional("room_id", RoomIds \cup {None}),
                 fed \in Optional("federatable", FedValues \cup {FlagNull})}

PlanRoomLists == UNION {[1..k -> PlanRoomRecords] : k \in 0..MaxPlanRooms}

\* records of the room listing of the source server (GET /v1/rooms)
ListingRecords ==
    {id @@ fed : id \in Optional("room_id", RoomIds),
                 fed \in Optional("federatable", FedValues)}

ListingLists == UNION {[1..k -> ListingRecords] : k \in 1..MaxPlanRooms}

\* the record of rooms.json the exporter builds from a listing record, as
\* json.load returns it: r.get(key) is None, written null, read None
RoomBasic(r) ==
    [room_id |-> Get(r, "room_id", None),
     federatable |-> Get(r, "federatable", FlagNull),
     version |-> Get(r, "version", None)]

\* rooms_basic of export_all
RoomsBasic(rooms) == [i \in 1..Len(rooms) |-> RoomBasic(rooms[i])]

PlanSwitches == {a \in Switches : ~a.dry_run}

InitPlan ==
    /\ InitLocals /\ InitLoader /\ InitExportLocals
    /\ cfg = NoConfig
    /\ args \in PlanSwitches
    /\ plan = EmptyPlan
    /\ dry_run = FALSE
    /\ create_local_rooms = FALSE
    /\ tgt = [joined |-> {}, aliases |-> EmptyDict, rooms |-> {},
              cooperative |-> TRUE]
    /\ \E am \in AliasMaps(RoomIds, 1) :
       \/ /\ pc = "export_rooms"
          /\ listing \in ListingLists
          /\ bundle = [rooms |-> <<>>, room_state |-> EmptyDict,
                       aliases |-> am, memberships |-> EmptyDict]
       \/ /\ pc = "build_plan"
          /\ listing = <<>>
          /\ \E rooms \in PlanRoomLists :
                bundle = [rooms |-> rooms, room_state |-> EmptyDict,
                          aliases |-> am, memberships |-> EmptyDict]

\* export_all, the rooms part: rooms.json is written from the listing, and
\* read back by load_bundle
ExportRooms ==
    /\ pc = "export_rooms"
    /\ bundle' = [bundle EXCEPT !.rooms = RoomsBasic(listing)]
    /\ pc' = "build_plan"
    /\ UNCHANGED <<args, plan, dry_run, create_local_rooms, tgt,
                   already_joined, results, idx, attempt, ok,
                   candidate_aliases, cidx, cur, itemlog, net, exc>>
    /\ UNCHANGED <<applied, loaderVars, exporterVars>>

\* plan = build_plan(bundle, server_name, ...), called twice in a row
BuildPlan ==
    /\ pc \in {"build_plan", "build_plan_again"}
    /\ plan' = build_plan(bundle, server_name, args.create_local_rooms,
                          args.create_aliases)
    /\ pc' = IF pc = "build_plan" THEN "build_plan_again" ELSE "plan_built"
    /\ UNCHANGED <<args, bundle, dry_run, create_local_rooms, tgt,
                   already_joined, results, idx, attempt, ok,
                   candidate_aliases, cidx, cur, itemlog, net, exc>>
    /\ UNCHANGED <<applied, loaderVars, exporterVars>>

PlanNext == ExportRooms \/ BuildPlan

PlanSpec == InitPlan /\ [][PlanNext]_vars

-----------------------------------------------------------------------------
(* The bundle loader: load_bundle, _extract_bundle_to_temp, _safe_extract. *)
(* A path is the sequence of its segments; an absolute path starts with    *)
(* the segment "/".  Archive members are regular files (extracting one     *)
(* creates its parent directories); .tar and .tar.zst differ only in the   *)
(* decompression, which is not modelled.                                   *)

\* tempfile.mkdtemp(prefix="matrix-import-")
TmpDir == <<"/", "tmp">>

\* the directory --bundle names, when it names a directory
BundleDir == <<"/", "bundle">>

\* the required documents, in the order load_bundle reads them, without
\* the last
RequiredDocs_NoMetadata ==
    <<"users.json", "rooms.json", "room_state.json", "memberships.json",
      "aliases.json">>

\* the required documents, in the order load_bundle reads them
RequiredDocs ==
    <<"users.json", "rooms.json", "room_state.json", "memberships.json",
      "aliases.json", "metadata.json">>

DevicesDoc == "devices.json"

\* what json.load returns for devices.json
DevicesContent == <<"devices">>

IsAbs(p) == StartsWith(p, <<"/">>)

\* the segments segs appended to the normalized segments acc
RECURSIVE NormSegs(_, _, _)
NormSegs(segs, acc, abs) ==
    IF segs = <<>> THEN acc
    ELSE LET seg == Head(segs)
             rest == Tail(segs)
         IN  CASE seg = "." -> NormSegs(rest, acc, abs)
               [] seg = ".." ->
                    IF acc # <<>> /\ acc[Len(acc)] # ".."
                    THEN NormSegs(rest, SubSeq(acc, 1, Len(acc) - 1), abs)
                    ELSE IF abs THEN NormSegs(rest, acc, abs)
                    ELSE NormSegs(rest, Append(acc, ".."), abs)
               [] OTHER -> NormSegs(rest, Append(acc, seg), abs)

\* os.path.normpath(p)
normpath(p) ==
    IF IsAbs(p) THEN <<"/">> \o NormSegs(Tail(p), <<>>, TRUE)
    ELSE LET n == NormSegs(p, <<>>, FALSE) IN IF n = <<>> THEN <<".">> ELSE n

\* os.path.join(d, name)
PathJoin(d, name) == IF IsAbs(name) THEN name ELSE d \o name

\* the test of _safe_extract that looks for absolute paths only
Unsafe_AbsoluteOnly(normalized) == StartsWith(normalized, <<"/">>)

\* normalized.startswith('/') or normalized.startswith('..') or isabs
Unsafe(normalized) ==
    \/ StartsWith(normalized, <<"/">>)
    \/ StartsWith(normalized, <<"..">>)
    \/ IsAbs(normalized)

\* the file tar.extract(member, path) writes
Extracted(path, name) == normpath(PathJoin(path, name))

\* p.exists() for a file p
Exists(p) == p \in disk

\* the names of list(d.iterdir())
Entries(d) ==
    {q[Len(d) + 1] : q \in {f \in disk : StartsWith(f, d) /\ Len(f) > Len(d)}}

\* entries[0] if entries else tmpdir, for every order iterdir may give
Roots(d) == IF Entries(d) = {} THEN {d} ELSE {d \o <<e>> : e \in Entries(d)}

\* the required documents that do not exist under r, in reading order
Missing(r) == SelectSeq(RequiredDocs, LAMBDA d : ~Exists(r \o <<d>>))

\* str(e) of the errors of the loader
E_nopath == <<"Bundle", "path", "does", "not", "exist">>
E_format == <<"Unsupported", "bundle", "format">>
E_unsafe == <<"Unsafe", "path", "in", "archive">>
E_missing(name) == <<"Missing", "required", "file", "in", "bundle", name>>

\* the content of the documents of the bundle that is loaded
BundleOnDisk ==
    [rooms |-> <<[room_id |-> R_a, federatable |-> "True", version |-> V10],
                 [room_id |-> R_b, federatable |-> "False", version |-> V10]>>,
     room_state |-> (R_a :> <<>>) @@ (R_b :> <<>>),
     aliases |-> (A_s :> R_a),
     memberships |-> (R_a :> Members) @@ (R_b :> Members)]

\* no Bundle
NoBundle ==
    [rooms |-> <<>>, room_state |-> EmptyDict, aliases |-> EmptyDict,
     memberships |-> EmptyDict]

AllDocs == Range(RequiredDocs) \cup {DevicesDoc}

\* the sets of documents a bundle may hold
DocSets ==
    {{}} \cup {AllDocs \ gone : gone \in {g \in SUBSET AllDocs :
                                              Cardinality(g) <= MaxMissing}}

\* the documents in the order the exporter's tar writes them (sorted)
DocOrder ==
    <<"aliases.json", "devices.json", "memberships.json", "metadata.json",
      "room_state.json", "rooms.json", "users.json">>

\* members of an archive besides the documents
ExtraPaths ==
    {<<"..", "evil">>, <<"/", "etc", "passwd">>, <<"b", "..", "..", "evil">>,
     <<"README">>, <<"b", ".", "notes">>}

ExtraLists == UNION {[1..k -> ExtraPaths] : k \in 0..MaxExtras}

\* the member names of the documents docs under the folder wrap
DocMembers(wrap, docs) ==
    LET names == SelectSeq(DocOrder, LAMBDA d : d \in docs)
    IN  [i \in 1..Len(names) |-> wrap \o <<names[i]>>]

\* tar archives: the documents, in a wrapping folder or not, with other
\* members before and after them
TarArchives ==
    LET around == {x \in ExtraLists \X ExtraLists :
                      Len(x[1]) + Len(x[2]) <= MaxExtras}
    IN  {[kind |-> "tar",
          members |-> x[1] \o DocMembers(wrap, docs) \o x[2]] :
            wrap \in {<<"b">>, <<>>}, docs \in DocSets, x \in around}

\* a path that does not exist, and a file that is no .tar and no .zst
OtherPaths == {[kind |-> "missing", members |-> <<>>],
               [kind |-> "other", members |-> <<>>]}

InitLoad ==
    /\ InitLocals /\ InitExporter
    /\ pc = "main_whoami"
    /\ args \in {a \in Switches : a.create_local_rooms /\ a.create_aliases}
    /\ plan = EmptyPlan
    /\ dry_run = FALSE
    /\ create_local_rooms = FALSE
    /\ bundle = NoBundle
    /\ \E c \in BOOLEAN :
          tgt = [joined |-> {}, aliases |-> EmptyDict, rooms |-> {},
                 cooperative |-> c]
    /\ root = None
    /\ devices = None
    /\ \/ /\ archive \in TarArchives \cup OtherPaths
          /\ disk = {}
       \/ /\ archive = NoArchive
          /\ \E docs \in DocSets : disk = {BundleDir \o <<d>> : d \in docs}

\* load_bundle up to the extraction loop: the path is tested, a directory
\* is its own root, an archive is opened
LoadBundle ==
    /\ pc = "main_load"
    /\ CASE archive.kind = "missing" ->
                /\ exc' = E_nopath
                /\ pc' = "load_failed"
                /\ UNCHANGED <<root, idx>>
         [] archive.kind = "other" ->
                /\ exc' = E_format
                /\ pc' = "load_failed"
                /\ UNCHANGED <<root, idx>>
         [] archive.kind = "dir" ->
                /\ root' = BundleDir
                /\ pc' = "read_bundle"
                /\ UNCHANGED <<exc, idx>>
         [] archive.kind = "tar" ->
                /\ idx' = 1
                /\ pc' = "safe_extract"
                /\ UNCHANGED <<exc, root>>
    /\ UNCHANGED <<args, bundle, plan, dry_run, create_local_rooms, tgt,
                   already_joined, results, attempt, ok, candidate_aliases,
                   cidx, cur, itemlog, net, applied>>
    /\ UNCHANGED <<archive, disk, devices, exporterVars>>

\* one pass of `for member in tar.getmembers()`; after the last member,
\* the root is located
SafeExtract ==
    /\ pc = "safe_extract"
    /\ IF idx > Len(archive.members)
       THEN /\ root' \in Roots(TmpDir)
            /\ pc' = "read_bundle"
            /\ UNCHANGED <<disk, exc, idx>>
       ELSE LET name == archive.members[idx]
                normalized == normpath(name) IN
            IF Unsafe(normalized)
            THEN /\ exc' = E_unsafe
                 /\ pc' = "load_failed"
                 /\ UNCHANGED <<disk, root, idx>>
            ELSE /\ disk' = disk \cup {Extracted(TmpDir, name)}
                 /\ idx' = idx + 1
                 /\ pc' = "safe_extract"
                 /\ UNCHANGED <<exc, root>>
    /\ UNCHANGED <<args, bundle, plan, dry_run, create_local_rooms, tgt,
                   already_joined, results, attempt, ok, candidate_aliases,
                   cidx, cur, itemlog, net, applied>>
    /\ UNCHANGED <<archive, devices, exporterVars>>

\* the six read_json calls, the optional devices.json, return Bundle(...)
ReadBundle ==
    /\ pc = "read_bundle"
    /\ IF Missing(root) # <<>>
       THEN /\ exc' = E_missing(Head(Missing(root)))
            /\ pc' = "load_failed"
            /\ UNCHANGED <<bundle, devices>>
       ELSE /\ bundle' = BundleOnDisk
            /\ devices' = IF Exists(root \o <<DevicesDoc>>)
                          THEN DevicesContent ELSE None
            /\ pc' = "main_plan"
            /\ exc' = exc
    /\ UNCHANGED <<args, plan, dry_run, create_local_rooms, tgt,
                   already_joined, results, idx, attempt, ok,
                   candidate_aliases, cidx, cur, itemlog, net, applied>>
    /\ UNCHANGED <<archive, disk, root, exporterVars>>

\* main with load_bundle in detail
LoadNext ==
    \/ MainWhoami
    \/ LoadBundle
    \/ SafeExtract
    \/ ReadBundle
    \/ MainPlan
    \/ PerformImport
    \/ JoinLoop
    \/ JoinTry
    \/ JoinFallback
    \/ AliasLoop
    \/ AliasTry
    \/ CreateLoop
    \/ CreateTry
    \/ Rerun

LoadSpec == InitLoad /\ [][LoadNext]_vars

-----------------------------------------------------------------------------
(* The exporter (src/exporter/exporter.py): export_all with the listings   *)
(* list_users and list_rooms of SynapseAdmin.  The source server answers a *)
(* listing request with the page the token names and with any continuation *)
(* token, and a state or members request with any answer or an error.      *)
(* An integer token n is <<n>>, the string of its digits is <<"str", n>>.   *)

\* state of the importer, which the exporter leaves alone
importerVars == <<args, bundle, plan, dry_run, create_local_rooms, tgt,
                  already_joined, results, attempt, ok, candidate_aliases,
                  cidx, cur, itemlog, net, applied>>

\* from_tok = 0
Zero == <<0>>

\* a token that is no number
Junk == <<"str", 1, "x">>

\* what a page may carry as next_token / next_batch
SourceTokens == {None, <<0>>, <<1>>, <<"str", 1>>, Junk}

\* int(tok) does not raise
IsInt(tok) == tok # None /\ (Len(tok) = 1 \/ (Len(tok) = 2 /\ tok[1] = "str"))

\* int(tok)
ToInt(tok) == IF Len(tok) = 1 THEN tok ELSE <<tok[2]>>

\* the truth value of a token: None and 0 are falsy
TokenTruthy(tok) == tok # None /\ tok # Zero

\* the offset the server reads from the request parameter `from`
Offset(tok) == IF IsInt(tok) THEN ToInt(tok)[1] ELSE 0

U_g == <<"@", "g", ":", "x">>

\* the users of the source server, in listing order
SourceUsers == <<[name |-> U_l, is_guest |-> FALSE],
                 [name |-> U_g, is_guest |-> TRUE]>>

\* str(e) of the RuntimeError raised by SynapseAdmin._get
SourceErrors == {E_502}

\* records of the room listing that export_all collects from
SourceRooms == {r \in ListingRecords : "federatable" \notin DOMAIN r}

SourceListings == UNION {[1..k -> SourceRooms] : k \in 0..MaxPlanRooms}

\* the page of a listing the server returns for the token tok (one record
\* per page)
Page(all, tok) ==
    IF Offset(tok) < Len(all) THEN <<all[Offset(tok) + 1]>> ELSE <<>>

\* the records export_all appends for the users list_users yields of a page
UserRecords(page) ==
    LET us == SelectSeq(page, LAMBDA u : ~u.is_guest)
    IN  [i \in 1..Len(us) |-> [name |-> us[i].name, user_id |-> us[i].name]]

\* no page fetched
NoPage == [from |-> None, next_token |-> None]

\* the configurations export_all is run with: with and without a domain
\* filter, with and without the optional documents
ExporterConfigs ==
    {c \in [server_name : {None, server_name}, include_devices : BOOLEAN,
            include_media_refs : BOOLEAN] :
        c.include_media_refs => (c.server_name = None /\ ~c.include_devices)}

\* export_all about to list the users: the output directory is empty and
\* the server version has been asked for
InitExport ==
    /\ InitLocals /\ InitLoader
    /\ pc = "list_users"
    /\ args = [dry_run |-> FALSE, create_local_rooms |-> FALSE,
               create_aliases |-> FALSE]
    /\ bundle = NoBundle
    /\ tgt = [joined |-> {}, aliases |-> EmptyDict, rooms |-> {},
              cooperative |-> TRUE]
    /\ plan = EmptyPlan
    /\ dry_run = FALSE
    /\ create_local_rooms = FALSE
    /\ listing \in SourceListings
    /\ cfg \in ExporterConfigs
    /\ from_tok = Zero
    /\ data = NoPage
    /\ fetches = 0
    /\ users = <<>>
    /\ rooms_basic = <<>>
    /\ room_state = EmptyDict
    /\ memberships = EmptyDict
    /\ aliases = EmptyDict
    /\ sent = <<>>
    /\ out = <<>>

\* write_json(out / name, obj)
write_json(dir, name, obj) == Append(dir, [file |-> name, content |-> obj])

\* one pass of the loop of list_users, with the loop of export_all over the
\* users it yields; when the listing ends, users.json is written
ListUsers ==
    /\ pc = "list_users"
    /\ fetches < MaxPages
    /\ \/ \E e \in SourceErrors :
            /\ pc' = "export_failed"
            /\ exc' = e
            /\ UNCHANGED <<from_tok, data, fetches, users, out>>
       \/ \E tok \in SourceTokens :
            LET got == users \o UserRecords(Page(SourceUsers, from_tok))
            IN  /\ data' = [from |-> from_tok, next_token |-> tok]
                /\ users' = got
                /\ IF tok = None \/ tok = from_tok
                   THEN /\ out' = write_json(out, "users.json", got)
                        /\ pc' = "list_rooms"
                        /\ from_tok' = Zero
                        /\ fetches' = 0
                   ELSE /\ from_tok' = tok
                        /\ fetches' = fetches + 1
                        /\ UNCHANGED <<pc, out>>
                /\ UNCHANGED exc
    /\ UNCHANGED <<idx, rooms_basic, room_state, memberships, aliases, sent>>
    /\ UNCHANGED <<importerVars, loaderVars, listing, cfg>>

\* one pass of the loop of list_rooms, with the loop of export_all over the
\* rooms it yields; when the listing ends, rooms.json is written
ListRooms ==
    /\ pc = "list_rooms"
    /\ fetches < MaxPages
    /\ \/ \E e \in SourceErrors :
            /\ pc' = "export_failed"
            /\ exc' = e
            /\ UNCHANGED <<from_tok, data, fetches, rooms_basic, out, idx>>
       \/ \E tok \in SourceTokens :
            LET got == rooms_basic \o RoomsBasic(Page(listing, from_tok))
            IN  /\ data' = [from |-> from_tok, next_token |-> tok]
                /\ rooms_basic' = got
                /\ IF TokenTruthy(tok) /\ IsInt(tok)
                   THEN /\ from_tok' = ToInt(tok)
                        /\ fetches' = fetches + 1
                        /\ UNCHANGED <<pc, out, idx>>
                   ELSE /\ out' = write_json(out, "rooms.json", got)
                        /\ pc' = "collect"
                        /\ idx' = 1
                        /\ from_tok' = None
                        /\ fetches' = 0
                /\ UNCHANGED exc
    /\ UNCHANGED <<users, room_state, memberships, aliases, sent>>
    /\ UNCHANGED <<importerVars, loaderVars, listing, cfg>>

\* important_state_types of export_all
ImportantStateTypes ==
    {"m.room.create", "m.room.power_levels", "m.room.join_rules",
     "m.room.history_visibility", "m.room.guest_access",
     "m.room.canonical_alias", "m.room.name", "m.room.topic",
     "m.room.encryption", "m.room.server_acl", "m.room.avatar",
     "m.space.child", "m.space.parent"}

AliasesEvent(as) == [type |-> "m.room.aliases", content |-> [aliases |-> as]]

MemberEvent(uid, m) ==
    [type |-> "m.room.member", state_key |-> uid, content |-> [membership |-> m]]

\* st = [{"error": str(e)}]
StateError(e) == <<[error |-> e]>>

\* {"_error": str(e)}
E_key == <<"_error">>
MembersError(e) == (E_key :> e)

\* ev.get("type")
HasType(ev, types) == "type" \in DOMAIN ev /\ ev.type \in types

\* filtered = [ev for ev in st if ev.get("type") in important_state_types]
Filtered(st) == SelectSeq(st, LAMBDA ev : HasType(ev, ImportantStateTypes))

\* the loop over the aliases of an m.room.aliases event
RECURSIVE LocalAliases(_, _, _, _)
LocalAliases(as, rid, c, acc) ==
    IF as = <<>> THEN acc
    ELSE LocalAliases(Tail(as), rid, c,
            IF c.server_name # None
               /\ EndsWith(Head(as), <<":">> \o c.server_name)
            THEN Put(acc, Head(as), rid) ELSE acc)

\* the loop over the events of the state st of the room rid
RECURSIVE AliasesOfState(_, _, _, _)
AliasesOfState(st, rid, c, acc) ==
    IF st = <<>> THEN acc
    ELSE LET ev == Head(st)
             a == ev.content.alias
         IN  AliasesOfState(Tail(st), rid, c,
                CASE HasType(ev, {"m.room.aliases"}) ->
                        LocalAliases(ev.content.aliases, rid, c, acc)
                  [] HasType(ev, {"m.room.canonical_alias"}) ->
                        IF a # None
                           /\ (c.server_name = None
                               \/ EndsWith(a, <<":">> \o c.server_name))
                        THEN Put(acc, a, rid) ELSE acc
                  [] OTHER -> acc)

\* alias derivation that keeps the room an alias was first seen for
DeriveAliases_KeepFirst(st, rid, c, acc) ==
    LET new == AliasesOfState(st, rid, c, EmptyDict)
    IN  [x \in (DOMAIN acc) \cup (DOMAIN new) |->
            IF x \in DOMAIN acc THEN acc[x] ELSE new[x]]

\* `aliases` after the room rid with the state st: aliases[a] = rid
DeriveAliases(st, rid, c, acc) == AliasesOfState(st, rid, c, acc)

\* room_members built from the chunk of a members answer
RECURSIVE RoomMembers(_, _)
RoomMembers(chunk, acc) ==
    IF chunk = <<>> THEN acc
    ELSE LET ev == Head(chunk)
         IN  RoomMembers(Tail(chunk),
                IF /\ HasType(ev, {"m.room.member"})
                   /\ Get(ev, "state_key", None) # None
                   /\ "membership" \in DOMAIN ev.content
                THEN Put(acc, ev.state_key, ev.content.membership)
                ELSE acc)

\* what the source answers to GET .../state
StateAnswers ==
    {<<>>,
     <<AliasesEvent(<<A_t, A_u>>), CanonicalAlias(A_s), CanonicalAlias(A_u)>>}

\* what the source answers to GET .../members, as its chunk
MemberAnswers ==
    {<<>>, <<MemberEvent(U_l, "leave"), MemberEvent(U_r, "join"),
             MemberEvent(U_l, "join")>>}

\* a loop body that gives up the room when its state fetch fails
CollectResult_StopOnError(rid, s, m) ==
    LET st == IF s.ok THEN s.events ELSE StateError(s.error)
    IN  [room_state |-> Put(room_state, rid, Filtered(st)),
         aliases |-> DeriveAliases(st, rid, cfg, aliases),
         memberships |->
            IF ~s.ok THEN memberships
            ELSE Put(memberships, rid,
                     IF m.ok THEN RoomMembers(m.events, EmptyDict)
                     ELSE MembersError(m.error)),
         sent |-> sent \o <<[op |-> "room_state", rid |-> rid, ok |-> s.ok,
                   events |-> s.events]>>
                  \o (IF ~s.ok THEN <<>>
                      ELSE <<[op |-> "room_members", rid |-> rid, ok |-> m.ok,
                   events |-> m.events]>>)]

\* the body of the loop over rooms_basic for the room rid, the state fetch
\* answering s and the members fetch answering m (an error, or events)
CollectResult(rid, s, m) ==
    LET st == IF s.ok THEN s.events ELSE StateError(s.error)
    IN  [room_state |-> Put(room_state, rid, Filtered(st)),
         aliases |-> DeriveAliases(st, rid, cfg, aliases),
         memberships |->
            Put(memberships, rid,
                IF m.ok THEN RoomMembers(m.events, EmptyDict)
                ELSE MembersError(m.error)),
         sent |-> sent \o <<[op |-> "room_state", rid |-> rid, ok |-> s.ok,
                   events |-> s.events],
                              [op |-> "room_members", rid |-> rid, ok |-> m.ok,
                   events |-> m.events]>>]

Answers(events) ==
    {[ok |-> TRUE, events |-> ev, error |-> None] : ev \in events}
    \cup {[ok |-> FALSE, events |-> <<>>, error |-> e] : e \in SourceErrors}

\* one pass of the loop over rooms_basic
CollectRoom ==
    /\ pc = "collect"
    /\ idx <= Len(rooms_basic)
    /\ LET rid == rooms_basic[idx].room_id
       IN  IF rid = None
           THEN UNCHANGED <<room_state, aliases, memberships, sent>>
           ELSE \E s \in Answers(StateAnswers), m \in Answers(MemberAnswers) :
                    LET r == CollectResult(rid, s, m)
                    IN  /\ room_state' = r.room_state
                        /\ aliases' = r.aliases
                        /\ memberships' = r.memberships
                        /\ sent' = r.sent
    /\ idx' = idx + 1
    /\ UNCHANGED <<pc, exc, from_tok, data, fetches, users, rooms_basic, out>>
    /\ UNCHANGED <<importerVars, loaderVars, listing, cfg>>

\* the output directory, cfg.out_dir
OutDir == <<"b">>

\* `meta` of export_all
Meta ==
    [users |-> Len(users), rooms |-> Len(rooms_basic),
     devices_exported |-> cfg.include_devices,
     media_refs |-> cfg.include_media_refs]

\* schema["files"]
SchemaFiles(c) ==
    <<"users.json", "rooms.json", "room_state.json", "memberships.json",
      "aliases.json", "metadata.json">>
    \o (IF c.include_devices THEN <<"devices.json">> ELSE <<>>)
    \o (IF c.include_media_refs THEN <<"media_refs.json">> ELSE <<>>)

\* `devices` of export_all: an entry per exported user (the device lists
\* themselves are not modelled)
ExportedDevices == [uid \in {users[i].user_id : i \in 1..Len(users)} |-> EmptyDict]

\* the files of the directory dir; p.exists()
FilesOf(dir) == {dir[i].file : i \in 1..Len(dir)}

\* the content of the file name of dir: that of its last write
ContentOf(dir, name) ==
    LET i == CHOOSE j \in 1..Len(dir) :
                /\ dir[j].file = name
                /\ \A k \in (j + 1)..Len(dir) : dir[k].file # name
    IN  dir[i].content

\* the SHA-256 digest of a file, standing for its content
Sha256(content) == [sha256 |-> content]

\* `manifest` of export_all
Manifest(dir, c) ==
    [f \in {x \in Range(SchemaFiles(c)) : x \in FilesOf(dir)} |->
        Sha256(ContentOf(dir, f))]

\* the writes of export_all between the room loop and the manifest
Documents ==
    LET d1 == write_json(out, "room_state.json", room_state)
        d2 == write_json(d1, "memberships.json", memberships)
        d3 == write_json(d2, "aliases.json", aliases)
        d4 == IF cfg.include_devices
              THEN write_json(d3, "devices.json", ExportedDevices) ELSE d3
        d5 == IF cfg.include_media_refs
              THEN write_json(d4, "media_refs.json", <<"note">>) ELSE d4
        d6 == write_json(d5, "metadata.json", Meta)
    IN  write_json(d6, "schema.json", SchemaFiles(cfg))

\* export_all from the end of the room loop to schema.json
WriteDocuments ==
    /\ pc = "collect"
    /\ idx > Len(rooms_basic)
    /\ out' = Documents
    /\ pc' = "manifest"
    /\ UNCHANGED <<idx, exc, from_tok, data, fetches, users, rooms_basic,
                   room_state, memberships, aliases, sent>>
    /\ UNCHANGED <<importerVars, loaderVars, listing, cfg>>

\* the manifest is computed from the files on disk and written
WriteManifest ==
    /\ pc = "manifest"
    /\ out' = write_json(out, "manifest.json", Manifest(out, cfg))
    /\ pc' = "report"
    /\ UNCHANGED <<idx, exc, from_tok, data, fetches, users, rooms_basic,
                   room_state, memberships, aliases, sent>>
    /\ UNCHANGED <<importerVars, loaderVars, listing, cfg>>

\* render_report(out / "report.html", meta)
render_report(dir, meta) == Append(dir, [file |-> "report.html", content |-> meta])

RenderReport ==
    /\ pc = "report"
    /\ out' = render_report(out, Meta)
    /\ pc' = "tar_zst"
    /\ UNCHANGED <<idx, exc, from_tok, data, fetches, users, rooms_basic,
                   room_state, memberships, aliases, sent>>
    /\ UNCHANGED <<importerVars, loaderVars, listing, cfg>>

\* the files export_all may write, in the order tar.add visits them
ExportOrder ==
    <<"aliases.json", "devices.json", "manifest.json", "media_refs.json",
      "memberships.json", "metadata.json", "report.html", "room_state.json",
      "rooms.json", "schema.json", "users.json">>

\* tar_zst(bundle_folder, artifact): the folder is added under its name
tar_zst(dir) ==
    LET names == SelectSeq(ExportOrder, LAMBDA f : f \in FilesOf(dir))
    IN  [kind |-> "tar", members |-> [i \in 1..Len(names) |-> OutDir \o <<names[i]>>]]

Package ==
    /\ pc = "tar_zst"
    /\ archive' = tar_zst(out)
    /\ pc' = "exported"
    /\ UNCHANGED <<idx, exc, from_tok, data, fetches, users, rooms_basic,
                   room_state, memberships, aliases, sent, out>>
    /\ UNCHANGED <<importerVars, disk, root, devices, listing, cfg>>

ExportNext ==
    \/ ListUsers
    \/ ListRooms
    \/ CollectRoom
    \/ WriteDocuments
    \/ WriteManifest
    \/ RenderReport
    \/ Package

ExportSpec == InitExport /\ [][ExportNext]_vars

-----------------------------------------------------------------------------
(* The create loop on its own: perform_import called for a bundle with one *)
(* room to recreate, whose state snapshot may hold several name and topic  *)
(* events and whose membership table may be an error marker or hold more   *)
(* members than a room is created with.                                    *)

RoomTopic(t) == [type |-> "m.room.topic", content |-> [topic |-> t]]

JoinRules(r) == [type |-> "m.room.join_rules", content |-> [join_rule |-> r]]

\* the events of the state snapshot of the room
CreateStateEvents ==
    {RoomName(<<"N">>), RoomName(<<"M">>), RoomTopic(<<"T">>),
     RoomTopic(<<"V">>), JoinRules(<<"public">>)}

CreateStates == UNION {[1..k -> CreateStateEvents] : k \in 0..MaxFacts}

U_k == <<"@", "k", ":", "x">>

\* the user @uNN:x
NumberedUser(n) ==
    <<"@", "u", Chars[(n \div 10) + 1], Chars[(n % 10) + 1], ":", "x">>

\* membership tables of a few users: local and remote, joined, invited, gone
FewMembers ==
    (U_l :> "join") @@ (U_r :> "join") @@ (U_g :> "invite") @@ (U_k :> "leave")

\* the table the exporter writes when the members fetch failed
FailedMembers == MembersError(E_502)

\* a table of MaxMembers joined local users and a remote one
ManyMembers ==
    [u \in {NumberedUser(n) : n \in 0..(MaxMembers - 1)} \cup {U_r} |-> "join"]

\* the snapshots and tables the create loop is run on
CreateInputs ==
    (CreateStates \X {FewMembers, FailedMembers, EmptyDict})
    \cup ({st \in CreateStates : Len(st) <= 1} \X {ManyMembers})

\* perform_import called by main for the bundle of one room that does not
\* federate, with --create-local-rooms
InitCreate ==
    /\ InitLocals /\ InitLoader /\ InitExporter
    /\ pc = "perform_import"
    /\ args = [dry_run |-> FALSE, create_local_rooms |-> TRUE,
               create_aliases |-> FALSE]
    /\ \E x \in CreateInputs :
          bundle = [rooms |-> <<[room_id |-> R_b, federatable |-> "False",
                                 version |-> V10]>>,
                    room_state |-> (R_b :> x[1]),
                    aliases |-> EmptyDict,
                    memberships |-> (R_b :> x[2])]
    /\ plan = build_plan(bundle, server_name, TRUE, FALSE)
    /\ dry_run = FALSE
    /\ create_local_rooms = TRUE
    /\ \E c \in BOOLEAN :
          tgt = [joined |-> {}, aliases |-> EmptyDict, rooms |-> {},
                 cooperative |-> c]

CreateNext ==
    \/ PerformImport
    \/ JoinLoop
    \/ AliasLoop
    \/ CreateLoop
    \/ CreateTry

CreateSpec == InitCreate /\ [][CreateNext]_vars

-----------------------------------------------------------------------------
(* Properties *)

\* positions of perform_import after joined_rooms() has returned
InLoops ==
    pc \in {"join_loop", "join_try", "join_fallback", "alias_loop",
            "alias_try", "create_loop", "create_try", "returned"}

\* the item cur has been processed to its end
ItemComplete ==
    pc \in {"join_loop", "alias_loop", "create_loop", "returned"}

NoDuplicates(s) == \A i, j \in 1..Len(s) : s[i] = s[j] => i = j

Last(s) == s[Len(s)]

\* the calls of itemlog, without the sleeps
CallsOf(log) == SelectSeq(log, LAMBDA c : c.op # "sleep")

\* MatrixClient.join_room joins by id when the argument starts with "!"
IsJoinById(c) == c.op = "joinRoom" /\ StartsWith(c.arg, <<"!">>)
IsJoinByAlias(c) == c.op = "joinRoom" /\ ~StartsWith(c.arg, <<"!">>)

\* the join rooms whose pass through the loop is over
JoinProcessed ==
    IF pc \in {"join_loop", "join_try", "join_fallback"}
    THEN {plan.join_rooms[j] : j \in 1..(idx - 1)}
    ELSE Range(plan.join_rooms)

\* C1: a room of the join list that joined_rooms() reported at the start is
\* recorded in 'joined' once the loop has passed it, and no join call, by
\* id or by alias, is ever made for it, whatever happens to the other items.
C1_AlreadyJoinedNoCall ==
    InLoops =>
        /\ \A k \in 1..Len(itemlog) :
              itemlog[k].op = "joinRoom" =>
                  /\ cur.key \notin already_joined
                  /\ itemlog[k].arg \notin already_joined
        /\ \A rid \in JoinProcessed \cap already_joined :
              /\ rid \in Range(results.joined)
              /\ rid \notin DOMAIN results.join_failed

\* C1 witness: the run is over, a room of the join list was already joined
\* and another room of the list failed every call made for it.
C1_Witness ==
    /\ pc = "returned"
    /\ ~dry_run
    /\ Range(plan.join_rooms) \cap already_joined # {}
    /\ DOMAIN results.join_failed # {}

\* C2: for a join-list entry that is not already joined, the calls are made
\* one after the other; at most 5 are joins by id; a successful call is the
\* last one; a join by alias comes only after 5 failed joins by id; a sleep
\* comes only between two joins by id, so there are at most 4 and none
\* before the fallback.
C2_JoinRetrySequence ==
    (InLoops /\ cur.kind = "join" /\ ~dry_run) =>
        LET log == itemlog
            byId == SelectSeq(log, IsJoinById)
            sleeps == SelectSeq(log, LAMBDA c : c.op = "sleep")
        IN  /\ \A k \in 1..Len(log) : log[k].op \in {"joinRoom", "sleep"}
            /\ Len(byId) <= 5
            /\ \A k \in 1..Len(byId) : byId[k].arg = cur.key
            /\ \A k \in 1..Len(log) :
                  (log[k].op = "joinRoom" /\ log[k].ok) => k = Len(log)
            /\ \A k \in 1..Len(log) :
                  IsJoinByAlias(log[k]) =>
                      /\ Len(SelectSeq(SubSeq(log, 1, k - 1), IsJoinById)) = 5
                      /\ \A j \in 1..(k - 1) : ~log[j].ok \/ log[j].op = "sleep"
                      /\ log[k - 1].op # "sleep"
            /\ Len(sleeps) <= 4
            /\ \A k \in 1..Len(log) :
                  log[k].op = "sleep" =>
                      /\ k > 1
                      /\ IsJoinById(log[k - 1]) /\ ~log[k - 1].ok
                      /\ IF k < Len(log)
                         THEN IsJoinById(log[k + 1])
                         ELSE pc = "join_try"
            /\ (cur.key \in already_joined) => log = <<>>

\* C2 witness: five joins by id failed, four sleeps lay between them, and
\* the fallback then joined by alias.
C2_Witness ==
    /\ cur.kind = "join"
    /\ Len(SelectSeq(itemlog, IsJoinById)) = 5
    /\ Len(SelectSeq(itemlog, LAMBDA c : c.op = "sleep")) = 4
    /\ Len(itemlog) = 10
    /\ IsJoinByAlias(itemlog[10]) /\ itemlog[10].ok

\* the alternate identifiers of room rid as the specification lists them:
\* the canonical alias of the state snapshot, then the other aliases of the
\* alias map that point at rid
AlternateIdentifiers(rid) ==
    LET canon == CanonicalAliasesOf(Get(bundle.room_state, rid, <<>>))
    IN  canon \o SelectSeq(Keys(bundle.aliases, AliasOrder),
                           LAMBDA a : /\ bundle.aliases[a] = rid
                                      /\ a \notin Range(canon))

\* C3: after the joins by id are exhausted the fallback sends the alternate
\* identifiers in order, canonical alias first, each exactly once (no
\* identifier goes to joinRoom twice for one room), up to the first success.
C3_FallbackEachOnce ==
    (InLoops /\ cur.kind = "join") =>
        LET calls == SelectSeq(itemlog, IsJoinByAlias)
            expected == AlternateIdentifiers(cur.key)
        IN  /\ Len(calls) <= Len(expected)
            /\ \A k \in 1..Len(calls) :
                  k <= Len(expected) => calls[k].arg = expected[k]
            /\ \A j, k \in 1..Len(calls) :
                  calls[j].arg = calls[k].arg => j = k
            /\ \A k \in 1..Len(calls) : calls[k].ok => k = Len(calls)
            /\ (/\ ItemComplete
                /\ Len(SelectSeq(itemlog, IsJoinById)) = 5
                /\ \A k \in 1..Len(itemlog) : ~itemlog[k].ok \/ itemlog[k].op = "sleep")
               => Len(calls) = Len(expected)

\* C4: when perform_import returns (no dry run, no id twice in the join
\* list) every room of the join list is in exactly one of 'joined' and
\* 'join_failed', and in 'joined' iff the target joined it (before the run
\* or by a call of the run); and whenever an entry ends with every call
\* failed, 'join_failed' holds the error of the last call.
C4_JoinedXorFailed ==
    /\ (pc = "returned" /\ ~dry_run /\ NoDuplicates(plan.join_rooms)) =>
          \A rid \in Range(plan.join_rooms) :
              /\ (rid \in Range(results.joined)) # (rid \in DOMAIN results.join_failed)
              /\ (rid \in Range(results.joined)) <=> (rid \in tgt.joined)
              /\ \A i, j \in 1..Len(results.joined) :
                    results.joined[i] = results.joined[j] => i = j
    /\ (InLoops /\ ItemComplete /\ cur.kind = "join" /\ itemlog # <<>>) =>
          IF Last(itemlog).ok
          THEN /\ Last(results.joined) = cur.key
               /\ NoDuplicates(plan.join_rooms) =>
                      cur.key \notin DOMAIN results.join_failed
          ELSE /\ cur.key \in DOMAIN results.join_failed
               /\ results.join_failed[cur.key] = exc

\* C4 witness: the joins by id were exhausted (a failure was recorded), the
\* first alias of the fallback failed too, the second joined, and the run
\* returned with the room in 'joined' only.
C4_Witness ==
    /\ pc = "returned"
    /\ cur.kind = "join"
    /\ Len(itemlog) = 11
    /\ Last(itemlog).ok
    /\ cur.key \in Range(results.joined)
    /\ NoDuplicates(plan.join_rooms)

\* C4 witness of the failing end: every call for the entry failed with one
\* error but the last, which failed with another.
C4_WitnessAllFailed ==
    /\ pc = "returned"
    /\ cur.kind = "join"
    /\ Len(itemlog) = 10
    /\ ~Last(itemlog).ok
    /\ exc = E_403

\* the plan of the run, also before main has built it
PlanOfRun ==
    IF pc \in {"main_whoami", "main_load", "main_plan"}
    THEN build_plan(bundle, server_name, args.create_local_rooms,
                    args.create_aliases)
    ELSE plan

\* whether the run reaches the third loop with local-room creation enabled
CreatesRooms ==
    IF pc \in {"main_whoami", "main_load", "main_plan"}
    THEN args.create_local_rooms
    ELSE create_local_rooms

\* the place of an item in the order join list, alias map, create list
Position(c) ==
    CASE c.kind = "none" -> 0
      [] c.kind = "join" -> c.i
      [] c.kind = "alias" -> Len(plan.join_rooms) + c.i
      [] c.kind = "create" ->
            Len(plan.join_rooms) + Cardinality(DOMAIN plan.create_aliases) + c.i

ItemCount ==
    Len(plan.join_rooms) + Cardinality(DOMAIN plan.create_aliases)
    + (IF create_local_rooms THEN Len(plan.create_rooms) ELSE 0)

\* most steps the entries j.. of the join list can take
RECURSIVE JoinSteps(_, _)
JoinSteps(P, j) ==
    IF j > Len(P.join_rooms) THEN 0
    ELSE 1 + Attempts + Len(CandidateAliases(bundle, P.join_rooms[j]))
         + JoinSteps(P, j + 1)

CreateSteps(P, j) ==
    IF CreatesRooms THEN 2 * (Len(P.create_rooms) + 1 - j) + 1 ELSE 1

AliasSteps(P, j) ==
    (1 + Attempts) * (Cardinality(DOMAIN P.create_aliases) + 1 - j) + 1
    + CreateSteps(P, 1)

JoinTail(P, j) == JoinSteps(P, j) + 1 + AliasSteps(P, 1)

\* whether perform_import may be called once more after the running call
MayRerun ==
    /\ tgt.cooperative
    /\ ~dry_run
    /\ applied = <<>>
    /\ pc \notin {"raised", "exit_0", "exit_2", "load_failed"}

\* a bound on the number of steps the running call can still take
RunRank ==
    LET P == PlanOfRun IN
    CASE pc = "main_whoami" -> JoinTail(P, 1) + 4
      [] pc = "main_load" -> JoinTail(P, 1) + 3
      [] pc = "main_plan" -> JoinTail(P, 1) + 2
      [] pc = "perform_import" -> JoinTail(P, 1) + 1
      [] pc = "join_loop" -> JoinTail(P, idx)
      [] pc = "join_try" ->
            (Attempts - attempt)
            + Len(CandidateAliases(bundle, P.join_rooms[idx]))
            + JoinTail(P, idx + 1)
      [] pc = "join_fallback" ->
            (Len(candidate_aliases) + 1 - cidx) + JoinTail(P, idx + 1)
      [] pc = "alias_loop" -> AliasSteps(P, idx)
      [] pc = "alias_try" -> (Attempts - attempt) + AliasSteps(P, idx + 1)
      [] pc = "create_loop" -> CreateSteps(P, idx)
      [] pc = "create_try" -> 1 + CreateSteps(P, idx + 1)
      [] OTHER -> 0

\* a bound on the number of steps the program can still take
Rank == RunRank + (IF MayRerun THEN JoinTail(PlanOfRun, 1) + 2 ELSE 0)

Terminated == pc \in {"returned", "raised", "exit_0", "exit_2", "load_failed"}

\* every item of the plan ended in its success list or its failure map
C5_Accounted ==
    /\ \A rid \in Range(plan.join_rooms) :
          rid \in Range(results.joined) \cup DOMAIN results.join_failed
    /\ \A a \in DOMAIN plan.create_aliases :
          a \in Range(results.aliases_created) \cup DOMAIN results.aliases_failed
    /\ create_local_rooms =>
          Len(results.rooms_created)
          + Cardinality({i \in 1..Len(plan.create_rooms) :
                            plan.create_rooms[i] \in DOMAIN results.rooms_failed})
          >= Len(plan.create_rooms)

C5_State ==
    /\ ~Terminated => ENABLED Next
    /\ pc = "returned" => (C5_Accounted /\ Position(cur) = ItemCount)
    /\ (/\ InLoops /\ ItemComplete /\ cur.kind # "none" /\ ~dry_run
        /\ ~(cur.kind = "join" /\ cur.key \in already_joined))
       => CallsOf(itemlog) # <<>>

\* C5: whatever calls of joinRoom, putAlias and createRoom fail,
\* perform_import ends (every step lowers a bound on the steps left, and it
\* stops only where the program ends), the items are taken one by one in
\* plan order without skipping any, each item that needs a call gets one,
\* and on return each item is in its success list or its failure map.
C5_FaultIsolation ==
    /\ []C5_State
    /\ [][Rank' < Rank]_vars
    /\ [][(InLoops /\ cur' # cur) => Position(cur') = Position(cur) + 1]_vars

\* C5 witness: the run returned after a room exhausted its retries and its
\* fallback, an alias exhausted its retries, and a local room was created.
C5_Witness ==
    /\ pc = "returned"
    /\ DOMAIN results.join_failed # {}
    /\ DOMAIN results.aliases_failed # {}
    /\ Len(results.rooms_created) > 0

\* C11: when the same plan is applied a second time against a cooperative
\* target, the second run leaves the target as the first run left it (no
\* membership, alias or room added) and reports no failure.
C11_IdempotentApply ==
    (pc = "returned" /\ applied # <<>>) =>
        /\ tgt = applied[1]
        /\ DOMAIN results.join_failed = {}
        /\ DOMAIN results.aliases_failed = {}
        /\ DOMAIN results.rooms_failed = {}

\* C6: no transport failure of a target call made while applying the plan
\* ends the run with an exception: perform_import always returns its result.
C6_NoTransportAbort == pc # "raised"

\* an error text that says "already in use" or "already exists"
SaysInUseOrExists(msg) ==
    Contains(msg, <<"already", "in", "use">>)
    \/ Contains(msg, <<"already", "exists">>)

\* an error text that holds M_ROOM_IN_USE or "already exists"
HoldsCodeOrExists(msg) ==
    Contains(msg, <<"M_ROOM_IN_USE">>) \/ Contains(msg, <<"already", "exists">>)

\* the last putAlias call for the alias cur failed with the text exc
LastPutAliasFailed ==
    /\ InLoops
    /\ cur.kind = "alias"
    /\ CallsOf(itemlog) # <<>>
    /\ ~Last(CallsOf(itemlog)).ok

\* the alias cur is recorded as created and no call for it is pending
RecordedCreated ==
    /\ ItemComplete
    /\ results.aliases_created # <<>>
    /\ Last(results.aliases_created) = cur.key
    /\ cur.key \notin DOMAIN results.aliases_failed

RoomsBefore == IF applied = <<>> THEN {} ELSE applied[1].rooms

\* C9: for each entry of the create list (no dry run, local-room creation
\* enabled) exactly one createRoom call is made; when it succeeds the room
\* id the target returned is appended to 'rooms_created' and nothing is
\* recorded as failed; when it fails the error is recorded in 'rooms_failed'
\* under the id of the bundle and nothing is appended.
C9_CreateOneShot ==
    /\ (InLoops /\ cur.kind = "create" /\ ~dry_run) =>
          /\ Len(itemlog) <= 1
          /\ \A k \in 1..Len(itemlog) : itemlog[k].op = "createRoom"
          /\ ItemComplete =>
                /\ Len(itemlog) = 1
                /\ IF itemlog[1].ok
                   THEN /\ results.rooms_created # <<>>
                        /\ "room_id" \in DOMAIN itemlog[1].created =>
                              Last(results.rooms_created) = itemlog[1].created.room_id
                        /\ NoDuplicates(plan.create_rooms) =>
                              cur.key \notin DOMAIN results.rooms_failed
                   ELSE /\ cur.key \in DOMAIN results.rooms_failed
                        /\ results.rooms_failed[cur.key] = exc
    /\ (pc = "returned" /\ ~dry_run /\ create_local_rooms) =>
          /\ DOMAIN results.rooms_failed \subseteq Range(plan.create_rooms)
          /\ Len(results.rooms_created) = Cardinality(tgt.rooms \ RoomsBefore)
          /\ NoDuplicates(plan.create_rooms) =>
                Len(results.rooms_created)
                + Cardinality(DOMAIN results.rooms_failed)
                = Len(plan.create_rooms)

\* C9 witness: of two rooms to create, the first call failed and the second
\* returned a new room id.
C9_Witness ==
    /\ pc = "returned"
    /\ cur.kind = "create"
    /\ cur.i = 2
    /\ DOMAIN results.rooms_failed # {}
    /\ results.rooms_created = <<FreshRoomId(1)>>

\* C10: in dry-run mode perform_import makes no call to the target at all,
\* always returns, records every item of the plan as a success, leaves the
\* failure maps empty and the target as it was.
C10_DryRunNoNetwork ==
    dry_run =>
        /\ net = {}
        /\ pc # "raised"
        /\ tgt.aliases = EmptyDict /\ tgt.rooms = {}
        /\ pc = "returned" =>
              /\ results.joined = plan.join_rooms
              /\ results.aliases_created = AliasItems
              /\ results.rooms_created = plan.create_rooms
              /\ DOMAIN results.join_failed = {}
              /\ DOMAIN results.aliases_failed = {}
              /\ DOMAIN results.rooms_failed = {}


\* a run of perform_import against a cooperative target that had joined no
\* room, for a plan whose items are distinct
CooperativeRun ==
    /\ InLoops /\ ~dry_run
    /\ tgt.cooperative
    /\ applied = <<>>
    /\ already_joined = {}
    /\ NoDuplicates(plan.join_rooms)
    /\ NoDuplicates(plan.create_rooms)

\* the operation perform_import calls for an item of the given kind
OpOf(kind) ==
    CASE kind = "join" -> "joinRoom"
      [] kind = "alias" -> "putAlias"
      [] kind = "create" -> "createRoom"

\* C26: against a cooperative target with no room joined and a plan of
\* distinct items, exactly one call is made for every item, the call of its
\* kind, and it succeeds; nothing sleeps; the Result has as many joined
\* rooms, created aliases and created rooms as the plan has join rooms,
\* aliases and create rooms, and its three failure maps are empty.
C26_CooperativeRun ==
    CooperativeRun =>
        /\ cur.kind # "none" =>
            /\ Len(itemlog) <= 1
            /\ \A k \in 1..Len(itemlog) :
                  itemlog[k].op = OpOf(cur.kind) /\ itemlog[k].ok
            /\ ItemComplete => Len(itemlog) = 1
        /\ DOMAIN results.join_failed = {}
        /\ DOMAIN results.aliases_failed = {}
        /\ DOMAIN results.rooms_failed = {}
        /\ pc = "returned" =>
            /\ Len(results.joined) = Len(plan.join_rooms)
            /\ Len(results.aliases_created) = Cardinality(DOMAIN plan.create_aliases)
            /\ Len(results.rooms_created) = Len(plan.create_rooms)
            /\ Range(results.joined) = Range(plan.join_rooms)
            /\ Range(results.aliases_created) = DOMAIN plan.create_aliases

\* C26 witness: the plan {join: [!a:x], create: [!b:x], aliases: {#s:x:
\* !a:x}} has been applied: 1 joined, 1 alias created, 1 room created
C26_Witness ==
    /\ CooperativeRun
    /\ pc = "returned"
    /\ plan = [join_rooms |-> <<R_a>>, create_rooms |-> <<R_b>>,
               create_aliases |-> (A_s :> R_a)]
    /\ results.joined = <<R_a>>
    /\ results.aliases_created = <<A_s>>
    /\ Len(results.rooms_created) = 1

\* the content of the first event of the given type in the snapshot st
RECURSIVE FirstValue(_, _, _)
FirstValue(st, type, key) ==
    IF st = <<>> THEN None
    ELSE IF Head(st).type = type THEN Get(Head(st).content, key, None)
    ELSE FirstValue(Tail(st), type, key)

\* a createRoom call has been made for the item cur
CreateCalled ==
    /\ cur.kind = "create"
    /\ Len(itemlog) = 1
    /\ itemlog[1].op = "createRoom"

\* C27: the name and the topic passed to createRoom are those of the first
\* m.room.name and the first m.room.topic event of the room's state
\* snapshot, also when the snapshot holds several events of the type.
C27_FirstNameTopic ==
    CreateCalled =>
        LET st == Get(bundle.room_state, cur.key, <<>>)
        IN  /\ itemlog[1].arg.name = FirstValue(st, "m.room.name", "name")
            /\ itemlog[1].arg.topic = FirstValue(st, "m.room.topic", "topic")

\* the members of the room rid that qualify as invitees
Qualifying(rid) ==
    LET m == Get(bundle.memberships, rid, EmptyDict)
    IN  {u \in DOMAIN m : /\ EndsWith(u, <<":">> \o server_name)
                          /\ m[u] \in {"join", "invite"}}

\* C28: the invite list passed to createRoom has no duplicates, ascends in
\* lexicographic order, has at most 50 entries, all of them users of the
\* target domain whose membership is join or invite; it holds every such
\* member, or the 50 smallest of them when there are more; the key of an
\* error marker is never invited.
C28_InviteList ==
    CreateCalled =>
        LET inv == itemlog[1].arg.invite
            Q == Qualifying(cur.key)
        IN  /\ NoDuplicates(inv)
            /\ \A i \in 1..(Len(inv) - 1) : StrLess(inv[i], inv[i + 1])
            /\ Len(inv) <= 50
            /\ Range(inv) \subseteq Q
            /\ Len(inv) = Min(50, Cardinality(Q))
            /\ \A q \in Q \ Range(inv) :
                  \A i \in 1..Len(inv) : StrLess(inv[i], q)
            /\ E_key \notin Range(inv)

\* more than 50 members qualify, and createRoom was called with the 50
\* smallest: @u00:x up to @u49:x
C28_Witness ==
    /\ CreateCalled
    /\ Cardinality(Qualifying(cur.key)) > 50
    /\ Len(itemlog[1].arg.invite) = 50
    /\ itemlog[1].arg.invite[1] = NumberedUser(0)
    /\ itemlog[1].arg.invite[50] = NumberedUser(49)

\* the membership table is an error marker, and createRoom was called
\* without invitees
C28_WitnessMarker ==
    /\ CreateCalled
    /\ E_key \in DOMAIN bundle.memberships[cur.key]
    /\ itemlog[1].arg.invite = <<>>

\* of four members, the two local ones that joined or were invited are
\* invited, in order
C28_WitnessFew ==
    /\ CreateCalled
    /\ bundle.memberships[cur.key] = FewMembers
    /\ itemlog[1].arg.invite = <<U_g, U_l>>

\* the phase of perform_import that processes items of the given kind
Phase(kind) ==
    CASE kind = "none" -> 0
      [] kind = "join" -> 1
      [] kind = "alias" -> 2
      [] kind = "create" -> 3

NoAliasOutcome ==
    results.aliases_created = <<>> /\ DOMAIN results.aliases_failed = {}

NoCreateOutcome ==
    results.rooms_created = <<>> /\ DOMAIN results.rooms_failed = {}

\* the calls made for an item are those of its phase; while a join item is
\* processed no alias or create item has an outcome, while an alias item is
\* processed no create item has one; every putAlias call names the room id
\* the bundle gives for the alias, which is no id of a created room
C29_State ==
    (InLoops /\ cur.kind # "none") =>
        /\ \A k \in 1..Len(itemlog) :
              itemlog[k].op # "sleep" => itemlog[k].op = OpOf(cur.kind)
        /\ cur.kind = "join" => NoAliasOutcome /\ NoCreateOutcome
        /\ cur.kind = "alias" =>
            /\ NoCreateOutcome
            /\ \A k \in 1..Len(itemlog) :
                  itemlog[k].op = "putAlias" =>
                      /\ itemlog[k].arg = <<cur.key, bundle.aliases[cur.key]>>
                      /\ itemlog[k].arg[2] \notin tgt.rooms

\* C29: within a call of perform_import the phases follow each other in
\* the order join, alias, create and never go back, so every join attempt
\* precedes every putAlias call and every putAlias call precedes every
\* createRoom call; an alias is published against the room id of the
\* bundle, never against the id createRoom returned.
C29_PhaseOrder ==
    /\ []C29_State
    /\ [][pc # "perform_import" => Phase(cur'.kind) >= Phase(cur.kind)]_vars

\* C29 witness: the alias of a room that does not federate was published
\* against the room id of the bundle, and the room was then recreated under
\* a new id
C29_Witness ==
    /\ pc = "returned"
    /\ ~dry_run
    /\ \E a \in DOMAIN tgt.aliases :
          /\ tgt.aliases[a] = bundle.aliases[a]
          /\ tgt.aliases[a] \in Range(plan.create_rooms)
          /\ tgt.aliases[a] \notin Range(results.rooms_created)
    /\ results.rooms_created = <<FreshRoomId(1)>>

-----------------------------------------------------------------------------
(* Properties of the Plan Builder (PlanSpec) *)

\* build_plan has returned at least once
PlanBuilt == pc \in {"build_plan_again", "plan_built"}

HasRoomId(r) == "room_id" \in DOMAIN r /\ r.room_id # None

\* the flag of the record is JSON true, or the record has no flag
FlagTrueOrAbsent(r) ==
    "federatable" \notin DOMAIN r \/ r.federatable = "True"

\* the flag of the record is there and is JSON false
FlagExplicitlyFalse(r) ==
    "federatable" \in DOMAIN r /\ r.federatable = "False"

RecordsOf(rid) == {i \in 1..Len(bundle.rooms) :
                      HasRoomId(bundle.rooms[i]) /\ bundle.rooms[i].room_id = rid}

\* C13: a room id is in the join list iff some room record has that id and
\* a federatable flag that is true or absent, whatever the two switches are.
C13_JoinList ==
    PlanBuilt =>
        /\ \A rid \in RoomIds \cup {None} :
              rid \in Range(plan.join_rooms) <=>
                 \E i \in RecordsOf(rid) : FlagTrueOrAbsent(bundle.rooms[i])
        /\ \A sw \in PlanSwitches :
              build_plan(bundle, server_name, sw.create_local_rooms,
                         sw.create_aliases).join_rooms = plan.join_rooms

\* C13 witness: a plan built from a record without a flag, a record with a
\* null flag and no other: the first is joined, the second is not.
C13_Witness ==
    /\ PlanBuilt
    /\ Len(bundle.rooms) = 2
    /\ bundle.rooms[1] = [room_id |-> R_a]
    /\ bundle.rooms[2] = [room_id |-> R_b, federatable |-> FlagNull]
    /\ plan.join_rooms = <<R_a>>

\* C14: a room whose source listing record has no federatable field is, once
\* exported and planned, in the join list and not in the create list.
C14_AbsentFlagJoins ==
    (PlanBuilt /\ listing # <<>> /\ NoDuplicates(RoomIdsOf(listing))) =>
        \A i \in 1..Len(listing) :
            (HasRoomId(listing[i]) /\ "federatable" \notin DOMAIN listing[i])
            => /\ listing[i].room_id \in Range(plan.join_rooms)
               /\ listing[i].room_id \notin Range(plan.create_rooms)

\* C15: a room id is in the create list only if a record of that id has the
\* flag explicitly false and the create-local-rooms switch is on; with the
\* switch off a room whose flag is false is in neither list.
C15_CreateList ==
    PlanBuilt =>
        /\ \A rid \in Range(plan.create_rooms) :
              /\ args.create_local_rooms
              /\ \E i \in RecordsOf(rid) : FlagExplicitlyFalse(bundle.rooms[i])
        /\ ~args.create_local_rooms =>
              \A i \in 1..Len(bundle.rooms) :
                 (/\ HasRoomId(bundle.rooms[i])
                  /\ \A j \in RecordsOf(bundle.rooms[i].room_id) :
                        FlagExplicitlyFalse(bundle.rooms[j]))
                 => /\ bundle.rooms[i].room_id \notin Range(plan.join_rooms)
                    /\ bundle.rooms[i].room_id \notin Range(plan.create_rooms)

\* C16: the join list and the create list of a plan share no room id.
C16_DisjointLists ==
    PlanBuilt => Range(plan.join_rooms) \cap Range(plan.create_rooms) = {}

-----------------------------------------------------------------------------
(* Properties of the import command with the loader (LoadSpec) *)

MutatingCalls == {"joinRoom", "putAlias", "createRoom"}

\* positions inside perform_import
InPerformImport == InLoops \/ pc \in {"perform_import", "raised"}

\* the archive has a member whose normalized path is absolute or starts
\* with a parent-directory segment
HasUnsafeMember ==
    \E i \in 1..Len(archive.members) :
        LET n == normpath(archive.members[i])
        IN  n[1] \in {"/", ".."}

\* the six required documents
SixDocuments ==
    {"users.json", "rooms.json", "room_state.json", "memberships.json",
     "aliases.json", "metadata.json"}

\* the required documents that do not exist under the bundle root
MissingUnderRoot == {d \in SixDocuments : (root \o <<d>>) \notin disk}

\* C12: a mutating call is issued, and perform_import is entered, only
\* after whoami succeeded and the bundle loaded: not when the archive has an
\* unsafe member path, not when a required document is missing; a failed
\* whoami exits with status 2 before anything is loaded or planned.
C12_NoMutationBeforeChecks ==
    /\ (InPerformImport \/ net \cap MutatingCalls # {}) =>
          /\ "whoami" \in net
          /\ ~HasUnsafeMember
          /\ root # None
          /\ MissingUnderRoot = {}
          /\ bundle = BundleOnDisk
    /\ pc = "exit_2" =>
          /\ net = {"whoami"}
          /\ root = None /\ bundle = NoBundle /\ plan = EmptyPlan
          /\ disk = {} \/ archive.kind = "dir"
    /\ pc = "load_failed" => net = {"whoami"} /\ plan = EmptyPlan

\* C12 witness: calls that change the target were made after an archive
\* with a wrapping folder and all documents was loaded.
C12_Witness ==
    /\ MutatingCalls \subseteq net
    /\ archive.kind = "tar"
    /\ root = TmpDir \o <<"b">>

\* C18: when an archive has an unsafe member, the load fails before any
\* file of the archive is written, and nothing is written outside the
\* extraction directory.
C18_NothingWrittenWhenUnsafe ==
    (archive.kind = "tar" /\ HasUnsafeMember) =>
        /\ disk = {}
        /\ \A f \in disk : StartsWith(f, TmpDir)
        /\ pc \notin {"read_bundle", "main_plan"}
        /\ ~InPerformImport

\* the load of an archive has located the root
RootLocated == archive.kind = "tar" /\ root # None

\* C19: the root is the single top-level entry of the extraction directory
\* when there is exactly one, and the extraction directory otherwise.
C19_EffectiveRoot ==
    RootLocated =>
        IF Cardinality(Entries(TmpDir)) = 1
        THEN \E e \in Entries(TmpDir) : root = TmpDir \o <<e>>
        ELSE root = TmpDir

\* load_bundle has returned a Bundle
Loaded == root # None /\ pc \notin {"read_bundle", "load_failed"}

C20_WitnessNoDevices ==
    /\ Loaded
    /\ archive.kind = "dir"
    /\ (root \o <<DevicesDoc>>) \notin disk

-----------------------------------------------------------------------------
(* Properties of the exporter (ExportSpec) *)

\* the listing at position p fetched a page and asks for another one
GoesOn(p) == pc = p /\ fetches > 0

\* the page fetched last carries a token, and not the one it was asked with
FreshToken == data.next_token # None /\ data.next_token # data.from

\* the user listing goes on only after a page with a fresh token
UsersPagingStops == GoesOn("list_users") => FreshToken

\* C21: for the user listing and for the room listing, paging stops as soon
\* as a page carries no continuation token or the token it was requested
\* with: a listing that asks for one more page has just fetched a page
\* whose token is present and differs from the request token.
C21_PagingStops ==
    (GoesOn("list_users") \/ GoesOn("list_rooms")) => FreshToken

\* the room ids of the records the room loop has passed, in order
Collected ==
    SelectSeq(RoomIdsOf(SubSeq(rooms_basic, 1, idx - 1)), LAMBDA rid : rid # None)

InRoomLoop == pc \in {"collect", "manifest", "report", "tar_zst", "exported"}

\* C22: a failing state or members fetch never aborts export_all: it fails
\* only before the room loop; every record with a room id that the loop has
\* passed got a state fetch followed by a members fetch of its own, whatever
\* the outcome of the state fetch and of the fetches of the other rooms,
\* and has an entry in room_state and in memberships.
C22_CollectionIsolation ==
    /\ pc = "export_failed" => sent = <<>>
    /\ InRoomLoop =>
        /\ Len(sent) = 2 * Len(Collected)
        /\ \A k \in 1..Len(Collected) :
            /\ sent[2 * k - 1].op = "room_state"
            /\ sent[2 * k - 1].rid = Collected[k]
            /\ sent[2 * k].op = "room_members"
            /\ sent[2 * k].rid = Collected[k]
            /\ Collected[k] \in DOMAIN room_state
            /\ Collected[k] \in DOMAIN memberships

\* both fetches of the first of two rooms fail, the fetches of the second
\* are made, and the export completes
C22_Witness ==
    /\ pc = "exported"
    /\ Len(rooms_basic) = 2
    /\ Len(sent) = 4
    /\ ~sent[1].ok /\ ~sent[2].ok /\ sent[3].ok /\ ~sent[4].ok
    /\ sent[1].rid # sent[3].rid

\* the last fetch op of the room rid failed
FetchFailed(op, rid) ==
    \E i \in 1..Len(sent) :
        /\ sent[i].op = op /\ sent[i].rid = rid /\ ~sent[i].ok
        /\ \A j \in (i + 1)..Len(sent) : ~(sent[j].op = op /\ sent[j].rid = rid)

\* a state entry that holds an error marker with the error
IsStateMarker(entry) ==
    \E i \in 1..Len(entry) :
        "error" \in DOMAIN entry[i] /\ entry[i].error \in SourceErrors

\* a membership entry that is an error marker with the error
IsMembersMarker(entry) ==
    E_key \in DOMAIN entry /\ entry[E_key] \in SourceErrors

Written(name) == name \in FilesOf(out)

\* in the written memberships.json, the entry of a room whose members fetch
\* failed is an error marker
MembersMarked ==
    Written("memberships.json") =>
        \A rid \in RoomIds :
            FetchFailed("room_members", rid) =>
                IsMembersMarker(ContentOf(out, "memberships.json")[rid])

\* C23: in the written room_state.json (memberships.json), the entry of a
\* room whose state fetch (members fetch) failed is an explicit error marker
\* that carries the error, and so differs from the entry of a room without
\* state events (without members).
C23_ErrorMarkers ==
    /\ MembersMarked
    /\ Written("room_state.json") =>
        \A rid \in RoomIds :
            FetchFailed("room_state", rid) =>
                /\ IsStateMarker(ContentOf(out, "room_state.json")[rid])
                /\ ContentOf(out, "room_state.json")[rid] # <<>>

\* the state answer events makes export_all record the alias a
Contributes(events, a) ==
    \E i \in 1..Len(events) :
        \/ /\ events[i].type = "m.room.aliases"
           /\ cfg.server_name # None
           /\ a \in Range(events[i].content.aliases)
           /\ EndsWith(a, <<":">> \o cfg.server_name)
        \/ /\ events[i].type = "m.room.canonical_alias"
           /\ events[i].content.alias = a
           /\ cfg.server_name = None \/ EndsWith(a, <<":">> \o cfg.server_name)

\* the state fetches whose answer contributes the alias a
Contributors(a) ==
    {i \in 1..Len(sent) :
        sent[i].op = "room_state" /\ sent[i].ok /\ Contributes(sent[i].events, a)}

\* the room ids of the records of the written rooms.json
WrittenRoomIds ==
    Range(RoomIdsOf(ContentOf(out, "rooms.json"))) \ {None}

\* C24: in the documents export_all has written, with a domain filter or
\* without, every key of room_state and of memberships and every value of
\* the alias map is the room id of a record of rooms; memberships has an
\* entry for every record with a room id; an alias that the state of
\* several rooms contributes maps to the room processed last of them.
C24_RoomIdsResolve ==
    Written("aliases.json") =>
        LET rs == ContentOf(out, "room_state.json")
            ms == ContentOf(out, "memberships.json")
            am == ContentOf(out, "aliases.json")
        IN  /\ DOMAIN rs \subseteq WrittenRoomIds
            /\ DOMAIN ms = WrittenRoomIds
            /\ \A a \in DOMAIN am : am[a] \in WrittenRoomIds
            /\ \A a \in Aliases :
                  IF Contributors(a) = {} THEN a \notin DOMAIN am
                  ELSE /\ a \in DOMAIN am
                       /\ \E i \in Contributors(a) :
                            /\ \A j \in Contributors(a) : j <= i
                            /\ am[a] = sent[i].rid

\* two rooms contribute the same alias, first !a:x and then !b:x, under a
\* domain filter that drops the alias of another domain
C24_Witness ==
    /\ pc = "exported"
    /\ cfg.server_name = server_name
    /\ Len(sent) = 4
    /\ sent[1].rid = R_a /\ sent[3].rid = R_b
    /\ Contributors(A_s) = {1, 3}
    /\ aliases = (A_s :> R_b) @@ (A_t :> R_b)

\* the position in `out` of the only write of the file name
WriteOf(name) == CHOOSE i \in 1..Len(out) : out[i].file = name

\* the written manifest has an entry for every file of the written schema,
\* each the digest of what the file held when the manifest was written, and
\* those files were written before it
ManifestCoversSchema ==
    Written("manifest.json") =>
        LET k == WriteOf("manifest.json")
            before == SubSeq(out, 1, k - 1)
            manifest == out[k].content
        IN  /\ DOMAIN manifest = Range(ContentOf(out, "schema.json"))
            /\ \A f \in DOMAIN manifest :
                /\ f \in FilesOf(before)
                /\ manifest[f] = Sha256(ContentOf(before, f))

\* C25: manifest.json is written after every document it hashes, has a
\* hash entry for every file of schema.json's file list, and is the last
\* file written to the output directory before the archive is packaged.
C25_ManifestLast ==
    /\ ManifestCoversSchema
    /\ Written("manifest.json") => out[Len(out)].file = "manifest.json"

=============================================================================
